---- MODULE Spec2Model ----
(***************************************************************************)
(* Model of the multi-agent coordination core of rclaw: the Role Manager,  *)
(* the Work Tracker, the Message Router, the Security Manager and the      *)
(* Orchestrator handlers that tie them together.                           *)
(*                                                                         *)
(* Each component has its own specification (SpecRoles, SpecTracker, ...)  *)
(* over the shared set of variables; a specification leaves the variables  *)
(* of the other components untouched.                                      *)
(*                                                                         *)
(* An optional value (a TypeScript `x?: T`) is a set with at most one      *)
(* element: {} is undefined, {v} is the value v.                           *)
(***************************************************************************)
EXTENDS Integers, Sequences, FiniteSets, TLC

VARIABLES
    \* ---- RoleManager (state.roles, state.assignments)
    roles,          \* roleId -> AgentRole, for the defined role ids
    assignments,    \* agentInstanceId -> RoleAssignment, for assigned agents
    rmLast,         \* the last RoleManager call and what it returned
    \* ---- WorkTracker
    tasks,          \* taskId -> TrackedTask, for the tracked task ids
    agentTaskIndex, \* agentInstanceId -> set of taskIds
    workflowTaskIndex, \* workflowPlanId -> set of taskIds
    stepIndex,      \* workflowStepId -> taskId
    usedTaskIds,    \* task ids handed out so far (task ids are UUIDs, never reused)
    wtLast,         \* the last WorkTracker call or handler run and what it returned
    events,         \* the orchestrator events emitted by the last call, in order
    \* ---- MessageRouter
    subscriptions,  \* the subscription list, in subscription order
    usedSubIds,     \* identities of the Subscription objects created so far
    peerGateways,   \* gatewayId -> PeerGateway, for the registered peers
    seenMessages,   \* the dedup set, in insertion order
    rtLast,         \* the last route()/send() call and what it did
    handlers,       \* subscription id -> what its handler does with a message
    dispatchLog,    \* the handler invocations of the last send(), in order
    \* ---- AgentSecurityManager
    policies,       \* agentId -> AgentSecurityPolicy, for the agents that have one
    rateLimiter,    \* agentId -> [count, windowStart]
    auditLog,       \* the audit entries, oldest first
    auditTrimPending,
    grants,         \* agentId -> the instants at which checkRateLimit returned true
                    \*            since the agent's policy was last set or removed
    authorizedIds,  \* messageIds for which authorizeMessage returned allowed = true
    secLast,        \* the last security manager call and what it returned
    \* ---- MultiAgentOrchestrator and the router's agent registry
    localAgents,    \* the registered local agents, in registration order
    agentHeartbeats, \* agentInstanceId -> the latest heartbeat received from it
    orLast,         \* the last orchestrator call and what it did
    cleanupTimer,   \* the handle start() stored, if any
    timers,         \* interval handle -> "active" or "cleared", for the handles created
    \* ---- the clock
    now             \* Date.now()

varsRoles == <<roles, assignments, rmLast>>
varsTracker == <<tasks, agentTaskIndex, workflowTaskIndex, stepIndex, usedTaskIds,
                 wtLast, events>>
varsRouter == <<subscriptions, usedSubIds, peerGateways, seenMessages, rtLast>>
varsSecurity == <<policies, rateLimiter, auditLog, auditTrimPending, grants,
                  authorizedIds, secLast>>

varsOrchestrator == <<localAgents, agentHeartbeats, orLast>>
varsDispatch == <<handlers, dispatchLog>>
varsTimers == <<cleanupTimer, timers>>

\* What the calls on one component leave alone.
outsideRoles == <<varsTracker, varsRouter, varsSecurity, varsOrchestrator,
                  varsDispatch, varsTimers, now>>
outsideTracker == <<varsRoles, varsRouter, varsSecurity, varsOrchestrator, varsDispatch, varsTimers>>
outsideRouter == <<varsRoles, varsTracker, varsSecurity, varsOrchestrator,
                   varsDispatch, varsTimers, now>>
outsideSecurity == <<varsRoles, varsTracker, varsRouter, varsOrchestrator, varsDispatch, varsTimers>>

None == {}
Some(v) == {v}
IsSet(o) == o # {}
Get(o) == CHOOSE v \in o : TRUE

(***************************************************************************)
(* RoleManager                                                             *)
(***************************************************************************)

\* Agent instances that callers pass to the managers.
Agents == {"A1", "A2", "A3"}

Role(id, maxConcurrent, priority) ==
    [roleId |-> id, maxConcurrent |-> maxConcurrent, priority |-> priority]

\* The six built-in role templates (roleId, maxConcurrent, priority).
BUILT_IN_ROLES ==
    << Role("orchestrator", Some(2), 100),
       Role("researcher",   None,    50),
       Role("coder",        None,    60),
       Role("reviewer",     None,    70),
       Role("monitor",      Some(1), 80),
       Role("executor",     Some(4), 40) >>

\* Role ids and role fields that callers pass in.
DefinableRoleIds == {"monitor", "custom"}
RemovableRoleIds == {"monitor", "custom", "coder"}
AssignableRoleIds == {"monitor", "coder", "custom"}
MaxQuota == 1
QuotaInputs == {None} \cup {Some(k) : k \in 1..MaxQuota}
CustomPriority == 55

\* Map.set(key, value) on a map held as a function.
MapSet(map, key, value) ==
    [k \in DOMAIN map \cup {key} |-> IF k = key THEN value ELSE map[k]]

\* Map.delete(key).
MapDelete(map, key) == [k \in DOMAIN map \ {key} |-> map[k]]

EmptyMap == [k \in {} |-> {}]

\* for (const x of list) map.set(keyOf(x), x)
RECURSIVE SetAll(_, _, _)
SetAll(map, list, keyField) ==
    IF list = << >> THEN map
    ELSE SetAll(MapSet(map, Head(list)[keyField], Head(list)), Tail(list), keyField)

NoCall == [op |-> "none", agent |-> "none", roleId |-> "none", ret |-> "none",
           prior |-> "none"]

Call(op, agent, roleId, ret, prior) ==
    [op |-> op, agent |-> agent, roleId |-> roleId, ret |-> ret, prior |-> prior]

\* constructor: seeds the built-in roles, no assignments.
InitRoles ==
    /\ roles = SetAll(EmptyMap, BUILT_IN_ROLES, "roleId")
    /\ assignments = EmptyMap
    /\ rmLast = NoCall

countAgentsWithRole(roleId) ==
    Cardinality({a \in DOMAIN assignments : assignments[a].role.roleId = roleId})

getAgentsWithRole(roleId) ==
    {a \in DOMAIN assignments : assignments[a].role.roleId = roleId}

\* The roleId an agent currently holds ("none" when it has no assignment).
HeldRole(agent) ==
    IF agent \in DOMAIN assignments THEN assignments[agent].role.roleId ELSE "none"

defineRole(role) ==
    /\ roles' = MapSet(roles, role.roleId, role)
    /\ rmLast' = Call("defineRole", "none", "none", "void", "none")
    /\ UNCHANGED <<assignments, outsideRoles>>

removeRole(roleId) ==
    /\ roles' = MapDelete(roles, roleId)
    /\ rmLast' = Call("removeRole", "none", "none",
                      IF roleId \in DOMAIN roles THEN "true" ELSE "false", "none")
    /\ UNCHANGED <<assignments, outsideRoles>>

\* assignRole's quota test without the alreadyHasRole exemption.
QuotaExceeded_CountsSelf(agent, roleId) ==
    LET role == roles[roleId]
        activeCount == countAgentsWithRole(roleId)
    IN  /\ IsSet(role.maxConcurrent)
        /\ activeCount >= Get(role.maxConcurrent)

\* The quota test of assignRole: the role has a maxConcurrent, the agent does
\* not hold the role yet, and the role already has maxConcurrent holders.
QuotaExceeded(agent, roleId) ==
    LET role == roles[roleId]
        activeCount == countAgentsWithRole(roleId)
        alreadyHasRole == HeldRole(agent) = roleId
    IN  /\ IsSet(role.maxConcurrent)
        /\ ~alreadyHasRole
        /\ activeCount >= Get(role.maxConcurrent)

\* assignRole returns null: the role is not defined or its quota is used up.
AssignRefused(agent, roleId) ==
    roleId \notin DOMAIN roles \/ QuotaExceeded(agent, roleId)

\* The assignments map after a successful assignRole.
RoleAssigned(agent, roleId, assignedBy) ==
    MapSet(assignments, agent,
           [agentInstanceId |-> agent,
            role |-> roles[roleId],
            assignedBy |-> assignedBy])

assignRole(agent, roleId, assignedBy) ==
    IF AssignRefused(agent, roleId)
    THEN /\ rmLast' = Call("assignRole", agent, roleId, "null", HeldRole(agent))
         /\ UNCHANGED <<roles, assignments, outsideRoles>>
    ELSE /\ assignments' = RoleAssigned(agent, roleId, assignedBy)
         /\ rmLast' = Call("assignRole", agent, roleId, "assignment", HeldRole(agent))
         /\ UNCHANGED <<roles, outsideRoles>>

unassignRole(agent) ==
    /\ assignments' = MapDelete(assignments, agent)
    /\ rmLast' = Call("unassignRole", "none", "none",
                      IF agent \in DOMAIN assignments THEN "true" ELSE "false", "none")
    /\ UNCHANGED <<roles, outsideRoles>>

\* [...map.values()]: the values of a map as an array.
RECURSIVE ValuesOf(_)
ValuesOf(map) ==
    IF DOMAIN map = {} THEN << >>
    ELSE LET k == CHOOSE x \in DOMAIN map : TRUE
         IN  <<map[k]>> \o ValuesOf(MapDelete(map, k))

exportState == [roles |-> ValuesOf(roles), assignments |-> ValuesOf(assignments)]

\* The two maps of a manager.
ManagerState(roleMap, assignmentMap) ==
    [roles |-> roleMap, assignments |-> assignmentMap]

\* A manager as the constructor leaves it.
FreshManager == ManagerState(SetAll(EmptyMap, BUILT_IN_ROLES, "roleId"), EmptyMap)

\* importState without the two clear() calls.
Imported_NotCleared(prior, data) ==
    ManagerState(SetAll(prior.roles, data.roles, "roleId"),
                 SetAll(prior.assignments, data.assignments, "agentInstanceId"))

\* The maps of a manager in state prior once importState(data) has run: both
\* maps are cleared, then every role and every assignment of the snapshot is
\* set under its own key.
Imported(prior, data) ==
    LET cleared == ManagerState(EmptyMap, EmptyMap)
    IN ManagerState(SetAll(cleared.roles, data.roles, "roleId"),
                    SetAll(cleared.assignments, data.assignments, "agentInstanceId"))

importState(data) ==
    /\ roles' = Imported(ManagerState(roles, assignments), data).roles
    /\ assignments' = Imported(ManagerState(roles, assignments), data).assignments
    /\ rmLast' = Call("importState", "none", "none", "void", "none")
    /\ UNCHANGED outsideRoles

Assignment(agent, role, assignedBy) ==
    [agentInstanceId |-> agent, role |-> role, assignedBy |-> assignedBy]

\* Snapshots read back from persistence (each was exported by some manager).
ImportSnapshots ==
    { [roles |-> << >>, assignments |-> << >>],
      [roles |-> << Role("custom", Some(1), CustomPriority), Role("coder", None, 60) >>,
       assignments |-> << Assignment("A1", Role("custom", Some(1), CustomPriority), "admin") >>],
      [roles |-> << Role("monitor", Some(2), CustomPriority) >>,
       assignments |-> << Assignment("A1", Role("monitor", Some(2), CustomPriority), "admin"),
                          Assignment("A2", Role("monitor", Some(2), CustomPriority), "admin") >>] }

NextRoles ==
    \/ \E id \in DefinableRoleIds, q \in QuotaInputs :
          defineRole(Role(id, q, CustomPriority))
    \/ \E id \in RemovableRoleIds : removeRole(id)
    \/ \E a \in Agents, id \in AssignableRoleIds : assignRole(a, id, "admin")
    \/ \E a \in Agents : unassignRole(a)
    \/ \E d \in ImportSnapshots : importState(d)

\* manager.importState(manager.exportState()).
restoreState ==
    /\ roles' = Imported(ManagerState(roles, assignments), exportState).roles
    /\ assignments' = Imported(ManagerState(roles, assignments), exportState).assignments
    /\ rmLast' = Call("restoreState", "none", "none", "void", "none")
    /\ UNCHANGED outsideRoles

\* other = new RoleManager(); other.importState(manager.exportState()); the
\* run goes on with other.
restoreIntoFresh ==
    /\ roles' = Imported(FreshManager, exportState).roles
    /\ assignments' = Imported(FreshManager, exportState).assignments
    /\ rmLast' = Call("restoreIntoFresh", "none", "none", "void", "none")
    /\ UNCHANGED outsideRoles

PersistAgents == {"A1", "A2"}

\* exportState() returns [...roles.values()] and [...assignments.values()]:
\* new arrays of the role and assignment objects the maps hold.
\* exportState().roles.find(r => r.roleId === roleId).maxConcurrent = quota
\* therefore writes to the stored role.
writeExportedRole(roleId, quota) ==
    /\ roleId \in DOMAIN roles
    /\ roles[roleId].maxConcurrent # Some(quota)
    /\ roles' = [roles EXCEPT ![roleId].maxConcurrent = Some(quota)]
    /\ rmLast' = Call("writeExportedRole", "none", roleId, "void", "none")
    /\ UNCHANGED <<assignments, outsideRoles>>

\* exportState().assignments.find(a => a.agentInstanceId === agent).role = role
\* writes to the stored assignment.
writeExportedAssignment(agent, role) ==
    /\ agent \in DOMAIN assignments
    /\ assignments[agent].role # role
    /\ assignments' = [assignments EXCEPT ![agent].role = role]
    /\ rmLast' = Call("writeExportedAssignment", agent, role.roleId, "void", "none")
    /\ UNCHANGED <<roles, outsideRoles>>

NextPersist ==
    \/ \E id \in DefinableRoleIds, q \in QuotaInputs :
          defineRole(Role(id, q, CustomPriority))
    \/ \E id \in RemovableRoleIds : removeRole(id)
    \/ \E a \in PersistAgents, id \in AssignableRoleIds : assignRole(a, id, "admin")
    \/ \E a \in PersistAgents : unassignRole(a)
    \/ \E d \in ImportSnapshots : importState(d)
    \/ restoreState
    \/ restoreIntoFresh

(***************************************************************************)
(* WorkTracker, and the Orchestrator's task.result / task.progress         *)
(* handlers that drive it                                                  *)
(***************************************************************************)

MaxNow == 1
MaxRetriesInput == 0
FullPercent == 100
DefaultMaxRetries == 2
DefaultPriority == 50

\* Task ids that callers pass in; an id is unknown to the tracker until
\* createTask has been called with it.
TaskIds == {"t1"}
TrackerAgents == {"A1"}
StepInputs == {None, Some("s1")}
RetryInputs == {None} \cup {Some(k) : k \in 0..MaxRetriesInput}
PercentInputs == {None, Some(50)}
StatusLineInputs == {None, Some("halfway done")}
ResultStatuses == {"success", "partial", "failure", "timeout"}
MaxAgeInputs == 0..MaxNow

\* The remaining createTask options: task, workflowPlanId, priority, deadline, tags.
TaskOpts(task, workflowPlanId, priority, deadline, tags) ==
    [task |-> task, workflowPlanId |-> workflowPlanId, priority |-> priority,
     deadline |-> deadline, tags |-> tags]

FullOpts == TaskOpts("impl X", Some("p1"), Some(DefaultPriority + 20),
                     Some(MaxNow), {"urgent"})
BareOpts == TaskOpts("impl Y", None, None, None, {})

\* The options of the tasks created in the lifecycle runs.
TrackerOpts == {FullOpts}

\* x ?? d
OrElse(x, d) == IF IsSet(x) THEN Get(x) ELSE d

WtCall(op, taskId, ret) == [op |-> op, taskId |-> taskId, ret |-> ret]

InitClock == now = 0

InitTracker ==
    /\ tasks = EmptyMap
    /\ agentTaskIndex = EmptyMap
    /\ stepIndex = EmptyMap
    /\ workflowTaskIndex = EmptyMap
    /\ usedTaskIds = {}
    /\ wtLast = WtCall("none", "none", "none")
    /\ events = <<>>

\* Time passes between calls.
Tick ==
    /\ now < MaxNow
    /\ now' = now + 1
    /\ wtLast' = WtCall("tick", "none", "none")
    /\ events' = <<>>
    /\ UNCHANGED <<tasks, agentTaskIndex, stepIndex, usedTaskIds, workflowTaskIndex, outsideTracker>>

\* The TrackedTask that createTask builds.
Tracked(taskId, workflowStepId, maxRetries, opts) ==
    [taskId |-> taskId,
     task |-> opts.task,
     status |-> "pending",
     workflowPlanId |-> opts.workflowPlanId,
     priority |-> OrElse(opts.priority, DefaultPriority),
     deadline |-> None,    \* opts.deadline is not copied
     tags |-> opts.tags,
     assignedTo |-> None,
     workflowStepId |-> workflowStepId,
     createdAt |-> now,
     assignedAt |-> None,
     startedAt |-> None,
     completedAt |-> None,
     progressPercent |-> None,
     statusLine |-> None,
     result |-> None,
     retryCount |-> 0,
     maxRetries |-> OrElse(maxRetries, DefaultMaxRetries)]

\* index.get(key).add(taskId), creating the set when the key is new.
SetIndexed(index, key, taskId) ==
    MapSet(index, key, (IF key \in DOMAIN index THEN index[key] ELSE {}) \cup {taskId})

\* The workflow index and the step index after createTask.
PlanIndexed(workflowPlanId, taskId) ==
    IF IsSet(workflowPlanId)
    THEN SetIndexed(workflowTaskIndex, Get(workflowPlanId), taskId)
    ELSE workflowTaskIndex

StepIndexed(workflowStepId, taskId) ==
    IF IsSet(workflowStepId)
    THEN MapSet(stepIndex, Get(workflowStepId), taskId)
    ELSE stepIndex

createTask(taskId, workflowStepId, maxRetries, opts) ==
    /\ taskId \notin usedTaskIds
    /\ tasks' = MapSet(tasks, taskId, Tracked(taskId, workflowStepId, maxRetries, opts))
    /\ workflowTaskIndex' = PlanIndexed(opts.workflowPlanId, taskId)
    /\ stepIndex' = StepIndexed(workflowStepId, taskId)
    /\ wtLast' = WtCall("createTask", taskId, "task")
    /\ events' = <<>>
    /\ usedTaskIds' = usedTaskIds \cup {taskId}
    /\ UNCHANGED <<agentTaskIndex, now, outsideTracker>>

\* A call that returns false and changes nothing.
Rejected(op, taskId) ==
    /\ wtLast' = WtCall(op, taskId, "false")
    /\ events' = <<>>
    /\ UNCHANGED <<tasks, agentTaskIndex, stepIndex, usedTaskIds, now, workflowTaskIndex, outsideTracker>>

\* assignTask without its status guard.
CanAssign_Always(task) == TRUE

\* The status guard of assignTask.
CanAssign(task) == task.status = "pending" \/ task.status = "failed"

\* assignTask that records no assignment time.
Assigned_NoTimestamp(task, agent) ==
    [task EXCEPT !.status = "assigned", !.assignedTo = Some(agent)]

\* The task after a successful assignTask, and after a successful startTask.
Assigned(task, agent) ==
    [task EXCEPT !.status = "assigned",
                 !.assignedTo = Some(agent),
                 !.assignedAt = Some(now)]

\* startTask that leaves the task as it is.
Started_NotStarted(task) == task

Started(task) ==
    [task EXCEPT !.status = "in-progress", !.startedAt = Some(now)]

assignTask(taskId, agent) ==
    IF taskId \notin DOMAIN tasks \/ ~CanAssign(tasks[taskId])
    THEN Rejected("assignTask", taskId)
    ELSE /\ tasks' = [tasks EXCEPT ![taskId] = Assigned(@, agent)]
         /\ agentTaskIndex' = SetIndexed(agentTaskIndex, agent, taskId)
         /\ wtLast' = WtCall("assignTask", taskId, "true")
         /\ events' = <<>>
         /\ UNCHANGED <<stepIndex, usedTaskIds, now, workflowTaskIndex, outsideTracker>>

startTask(taskId) ==
    IF taskId \notin DOMAIN tasks \/ tasks[taskId].status # "assigned"
    THEN Rejected("startTask", taskId)
    ELSE /\ tasks' = [tasks EXCEPT ![taskId] = Started(@)]
         /\ wtLast' = WtCall("startTask", taskId, "true")
         /\ events' = <<>>
         /\ UNCHANGED <<agentTaskIndex, stepIndex, usedTaskIds, now, workflowTaskIndex, outsideTracker>>

\* The task after updateProgress(taskId, percent, statusLine).
ProgressApplied(task, percent, statusLine) ==
    [task EXCEPT !.progressPercent = IF IsSet(percent) THEN percent ELSE @,
                 !.statusLine = IF IsSet(statusLine) THEN statusLine ELSE @]

updateProgress(taskId, percent, statusLine) ==
    IF taskId \notin DOMAIN tasks
    THEN Rejected("updateProgress", taskId)
    ELSE /\ tasks' = [tasks EXCEPT ![taskId] = ProgressApplied(@, percent, statusLine)]
         /\ wtLast' = WtCall("updateProgress", taskId, "true")
         /\ events' = <<>>
         /\ UNCHANGED <<agentTaskIndex, stepIndex, usedTaskIds, now, workflowTaskIndex, outsideTracker>>

\* result.status -> task status, with partial counted as a failure.
StatusOfResult_PartialFails(resultStatus) ==
    IF resultStatus = "success" THEN "completed"
    ELSE IF resultStatus = "timeout" THEN "timeout"
    ELSE "failed"

\* result.status -> task status
StatusOfResult(resultStatus) ==
    IF resultStatus = "success" \/ resultStatus = "partial" THEN "completed"
    ELSE IF resultStatus = "timeout" THEN "timeout"
    ELSE "failed"

\* The task after completeTask(taskId, result).
ResultApplied(task, resultStatus) ==
    [task EXCEPT !.completedAt = Some(now),
                 !.result = Some(resultStatus),
                 !.progressPercent = Some(FullPercent),
                 !.status = StatusOfResult(resultStatus)]

completeTask(taskId, resultStatus) ==
    IF taskId \notin DOMAIN tasks
    THEN Rejected("completeTask", taskId)
    ELSE /\ tasks' = [tasks EXCEPT ![taskId] = ResultApplied(@, resultStatus)]
         /\ wtLast' = WtCall("completeTask", taskId, "true")
         /\ events' = <<>>
         /\ UNCHANGED <<agentTaskIndex, stepIndex, usedTaskIds, now, workflowTaskIndex, outsideTracker>>

\* The status guard of cancelTask.
CanCancel(task) == ~(task.status = "completed" \/ task.status = "cancelled")

cancelTask(taskId) ==
    IF taskId \notin DOMAIN tasks \/ ~CanCancel(tasks[taskId])
    THEN Rejected("cancelTask", taskId)
    ELSE /\ tasks' = [tasks EXCEPT ![taskId].status = "cancelled",
                                   ![taskId].completedAt = Some(now)]
         /\ wtLast' = WtCall("cancelTask", taskId, "true")
         /\ events' = <<>>
         /\ UNCHANGED <<agentTaskIndex, stepIndex, usedTaskIds, now, workflowTaskIndex, outsideTracker>>

\* retryTask's guards without the retry limit.
CanRetry_NoLimit(task) ==
    task.status = "failed" \/ task.status = "timeout"

\* retryTask's guards with timed-out tasks left out.
CanRetry_FailedOnly(task) ==
    /\ task.status = "failed"
    /\ ~(task.retryCount >= task.maxRetries)

\* The guards of retryTask.
CanRetry(task) ==
    /\ task.status = "failed" \/ task.status = "timeout"
    /\ ~(task.retryCount >= task.maxRetries)

retryTask(taskId) ==
    IF taskId \notin DOMAIN tasks \/ ~CanRetry(tasks[taskId])
    THEN Rejected("retryTask", taskId)
    ELSE /\ tasks' = [tasks EXCEPT ![taskId].retryCount = @ + 1,
                                   ![taskId].status = "pending",
                                   ![taskId].assignedTo = None,
                                   ![taskId].assignedAt = None,
                                   ![taskId].startedAt = None,
                                   ![taskId].completedAt = None,
                                   ![taskId].progressPercent = None,
                                   ![taskId].statusLine = None,
                                   ![taskId].result = None]
         /\ wtLast' = WtCall("retryTask", taskId, "true")
         /\ events' = <<>>
         /\ UNCHANGED <<agentTaskIndex, stepIndex, usedTaskIds, now, workflowTaskIndex, outsideTracker>>

\* The tasks that cleanup(maxAgeMs) deletes.
CleanupRemoves(maxAgeMs) ==
    LET cutoff == now - maxAgeMs
    IN  {t \in DOMAIN tasks :
            /\ tasks[t].status \in {"completed", "cancelled", "failed"}
            /\ OrElse(tasks[t].completedAt, tasks[t].createdAt) < cutoff}

cleanup(maxAgeMs) ==
    LET gone == CleanupRemoves(maxAgeMs)
    IN  /\ tasks' = [t \in DOMAIN tasks \ gone |-> tasks[t]]
        /\ agentTaskIndex' =
               [a \in DOMAIN agentTaskIndex |->
                   agentTaskIndex[a] \ {t \in gone : tasks[t].assignedTo = Some(a)}]
        /\ workflowTaskIndex' =
               [p \in DOMAIN workflowTaskIndex |->
                   workflowTaskIndex[p] \ {t \in gone : tasks[t].workflowPlanId = Some(p)}]
        /\ stepIndex' =
               [s \in DOMAIN stepIndex \ {Get(tasks[t].workflowStepId) :
                                             t \in {g \in gone : IsSet(tasks[g].workflowStepId)}}
                   |-> stepIndex[s]]
        /\ wtLast' = WtCall("cleanup", "none", "removed")
        /\ events' = <<>>
        /\ UNCHANGED <<usedTaskIds, now, outsideTracker>>

\* Orchestrator handler for a delivered task.result message.
onTaskResult(workflowStepId, resultStatus) ==
    IF IsSet(workflowStepId) /\ Get(workflowStepId) \in DOMAIN stepIndex
    THEN LET taskId == stepIndex[Get(workflowStepId)]
         IN  /\ tasks' = IF taskId \in DOMAIN tasks
                         THEN [tasks EXCEPT ![taskId] = ResultApplied(@, resultStatus)]
                         ELSE tasks
             /\ wtLast' = WtCall("task.result", taskId, "handled")
             /\ events' = << [type |-> "task.completed", taskId |-> taskId,
                              status |-> resultStatus] >>
             /\ UNCHANGED <<agentTaskIndex, stepIndex, usedTaskIds, now, workflowTaskIndex, outsideTracker>>
    ELSE /\ wtLast' = WtCall("task.result", "none", "ignored")
         /\ events' = <<>>
         /\ UNCHANGED <<tasks, agentTaskIndex, stepIndex, usedTaskIds, now, workflowTaskIndex, outsideTracker>>

\* Orchestrator handler for a delivered task.progress message.
onTaskProgress(workflowStepId, percent, statusLine) ==
    IF IsSet(workflowStepId) /\ Get(workflowStepId) \in DOMAIN stepIndex
    THEN LET taskId == stepIndex[Get(workflowStepId)]
         IN  /\ tasks' = IF taskId \in DOMAIN tasks
                         THEN [tasks EXCEPT ![taskId] = ProgressApplied(@, percent, statusLine)]
                         ELSE tasks
             /\ wtLast' = WtCall("task.progress", taskId, "handled")
             /\ events' = << [type |-> "task.progress", taskId |-> taskId,
                              percent |-> percent] >>
             /\ UNCHANGED <<agentTaskIndex, stepIndex, usedTaskIds, now, workflowTaskIndex, outsideTracker>>
    ELSE /\ wtLast' = WtCall("task.progress", "none", "ignored")
         /\ events' = <<>>
         /\ UNCHANGED <<tasks, agentTaskIndex, stepIndex, usedTaskIds, now, workflowTaskIndex, outsideTracker>>

NextTracker ==
    \/ Tick
    \/ \E t \in TaskIds, s \in StepInputs, r \in RetryInputs, o \in TrackerOpts :
          createTask(t, s, r, o)
    \/ \E t \in TaskIds, a \in TrackerAgents : assignTask(t, a)
    \/ \E t \in TaskIds : startTask(t)
    \/ \E t \in TaskIds, p \in PercentInputs, l \in StatusLineInputs :
          updateProgress(t, p, l)
    \/ \E t \in TaskIds, r \in ResultStatuses : completeTask(t, r)
    \/ \E t \in TaskIds : cancelTask(t)
    \/ \E t \in TaskIds : retryTask(t)
    \/ \E m \in MaxAgeInputs : cleanup(m)
    \/ \E s \in StepInputs, r \in ResultStatuses : onTaskResult(s, r)
    \/ \E s \in StepInputs, p \in PercentInputs, l \in StatusLineInputs :
          onTaskProgress(s, p, l)

\* Two tasks that may name the same workflow step, created, cancelled and
\* cleaned up.
StepTaskIds == {"t1", "t2"}
StepOpts == {FullOpts, BareOpts}

\* A task that fails and is assigned again or retried, with two agents to
\* assign it to.
ReassignAgents == {"A1", "A2"}

NextReassign ==
    \/ Tick
    \/ \E t \in TaskIds, s \in StepInputs, r \in RetryInputs, o \in TrackerOpts :
          createTask(t, s, r, o)
    \/ \E t \in TaskIds, a \in ReassignAgents : assignTask(t, a)
    \/ \E t \in TaskIds : startTask(t)
    \/ \E t \in TaskIds, r \in ResultStatuses : completeTask(t, r)
    \/ \E t \in TaskIds : cancelTask(t)
    \/ \E t \in TaskIds : retryTask(t)
    \/ \E m \in MaxAgeInputs : cleanup(m)

NextSteps ==
    \/ Tick
    \/ \E t \in StepTaskIds, s \in StepInputs, r \in RetryInputs, o \in StepOpts :
          createTask(t, s, r, o)
    \/ \E t \in StepTaskIds : cancelTask(t)
    \/ \E m \in MaxAgeInputs : cleanup(m)

\* listTasks' filter: status, agentInstanceId, workflowPlanId, tag.
ListFilter(status, agentInstanceId, workflowPlanId, tag) ==
    [status |-> status, agentInstanceId |-> agentInstanceId,
     workflowPlanId |-> workflowPlanId, tag |-> tag]

\* The ids that an index holds under key and that are still tracked.
IndexedTasks(index, key) ==
    IF key \notin DOMAIN index THEN {}
    ELSE {id \in index[key] : id \in DOMAIN tasks}

\* The tasks listTasks iterates: narrowed by the agent index when
\* agentInstanceId is given, else by the workflow index when workflowPlanId
\* is given, else all tasks.
ListSource(filter) ==
    IF IsSet(filter.agentInstanceId)
    THEN IndexedTasks(agentTaskIndex, Get(filter.agentInstanceId))
    ELSE IF IsSet(filter.workflowPlanId)
         THEN IndexedTasks(workflowTaskIndex, Get(filter.workflowPlanId))
         ELSE DOMAIN tasks

\* The status and tag tests of the result loop.
Listed(filter) ==
    {id \in ListSource(filter) :
        /\ IsSet(filter.status) => tasks[id].status = Get(filter.status)
        /\ IsSet(filter.tag) => Get(filter.tag) \in tasks[id].tags}

\* results.sort((a, b) => b.priority - a.priority); tasks of equal priority
\* keep the order of the source, which the model takes by task id.
RECURSIVE SortedByPriority(_)
SortedByPriority(ids) ==
    IF ids = {} THEN <<>>
    ELSE LET first == CHOOSE id \in ids :
                         \A other \in ids : tasks[other].priority <= tasks[id].priority
         IN <<first>> \o SortedByPriority(ids \ {first})

\* The task ids of listTasks(filter), in the order returned.
listTasks(filter) == SortedByPriority(Listed(filter))

\* The filters of the listing runs.
ListFilters ==
    {ListFilter(st, a, w, tg) :
        st \in {None, Some("assigned")}, a \in {None, Some("A1")},
        w \in {None, Some("p1")}, tg \in {None, Some("urgent")}}

\* Two tasks, one of a workflow plan and one of none, created, assigned,
\* started and cancelled.
NextList ==
    \/ \E t \in StepTaskIds, o \in StepOpts : createTask(t, None, None, o)
    \/ \E t \in StepTaskIds, a \in ReassignAgents : assignTask(t, a)
    \/ \E t \in StepTaskIds : startTask(t)
    \/ \E t \in StepTaskIds : cancelTask(t)

(***************************************************************************)
(* MessageRouter                                                           *)
(***************************************************************************)

MAX_HOP_COUNT == 16
maxSeenSize == 10000
MsPerSecond == 1000

localGatewayId == "gw-1"
PeerIds == {"gw-2", "gw-3"}
PeerStatuses == {"connected", "disconnected"}
MessageIds == {"m1", "m2"}
PayloadTypes == {"task.result", "heartbeat"}

\* Identities of the Subscription objects, in the order subscribe() creates them.
SubIds == <<"h1", "h2">>

Identity(agentConfigId, roleId, gatewayId) ==
    [agentConfigId |-> agentConfigId, roleId |-> roleId, gatewayId |-> gatewayId]

\* The agent whose messages are routed, and the recipients it names.
Sender == Identity("cfg-1", Some("coder"), localGatewayId)
Recipients == {None,
               Some(Identity("cfg-2", Some("reviewer"), localGatewayId)),
               Some(Identity("cfg-3", None, "gw-3"))}

Filter(payloadType, fromAgentConfigId, fromRoleId) ==
    [payloadType |-> payloadType, fromAgentConfigId |-> fromAgentConfigId,
     fromRoleId |-> fromRoleId]

\* The filters handed to subscribe().
SubscriptionFilters ==
    { Filter(None, None, None),
      Filter(Some("task.result"), None, None),
      Filter(None, Some("cfg-9"), None),
      Filter(None, None, Some("coder")) }

Message(messageId, timestamp, to, direction, ttlSeconds, hopCount, payloadType) ==
    [messageId |-> messageId, timestamp |-> timestamp, from |-> Sender, to |-> to,
     direction |-> direction, ttlSeconds |-> ttlSeconds, hopCount |-> hopCount,
     signature |-> None, payloadType |-> payloadType]

\* <<ttlSeconds, age of the message in ms>>: no TTL, exactly at the TTL, past it.
TtlAndAge == { <<None, 0>>, <<Some(1), MsPerSecond>>, <<Some(1), MsPerSecond + 1>> }
HopInputs == {None, Some(MAX_HOP_COUNT - 1), Some(MAX_HOP_COUNT), Some(MAX_HOP_COUNT + 1)}
Directions == {"request", "broadcast"}

\* What a route() call did: where it returned (outcome), the handlers it invoked
\* in order (delivered) and the sendToPeer calls it made (forwarded).
RtCall(op, messageId, hopIn, outcome, delivered, forwarded) ==
    [op |-> op, messageId |-> messageId, hopIn |-> hopIn, outcome |-> outcome,
     delivered |-> delivered, forwarded |-> forwarded]

NoRoute == RtCall("none", "none", 0, "none", <<>>, {})

InitRouter ==
    /\ subscriptions = <<>>
    /\ usedSubIds = {}
    /\ peerGateways = EmptyMap
    /\ seenMessages = <<>>
    /\ rtLast = NoRoute

registerPeer(gatewayId, status) ==
    /\ peerGateways' = MapSet(peerGateways, gatewayId,
                              [gatewayId |-> gatewayId, status |-> status])
    /\ rtLast' = NoRoute
    /\ UNCHANGED <<subscriptions, usedSubIds, seenMessages, outsideRouter>>

removePeer(gatewayId) ==
    /\ peerGateways' = MapDelete(peerGateways, gatewayId)
    /\ rtLast' = NoRoute
    /\ UNCHANGED <<subscriptions, usedSubIds, seenMessages, outsideRouter>>

subscribe(opts) ==
    /\ Cardinality(usedSubIds) < Len(SubIds)
    /\ LET id == SubIds[Cardinality(usedSubIds) + 1]
       IN /\ subscriptions' = Append(subscriptions, [id |-> id, opts |-> opts])
          /\ usedSubIds' = usedSubIds \cup {id}
    /\ rtLast' = NoRoute
    /\ UNCHANGED <<peerGateways, seenMessages, outsideRouter>>

\* The function subscribe() returned for subscription id.
unsubscribe(id) ==
    /\ id \in usedSubIds
    /\ \E i \in DOMAIN subscriptions : subscriptions[i].id = id
    /\ LET Other(sub) == sub.id # id
       IN subscriptions' = SelectSeq(subscriptions, Other)
    /\ rtLast' = NoRoute
    /\ UNCHANGED <<usedSubIds, peerGateways, seenMessages, outsideRouter>>

SeenSet == {seenMessages[i] : i \in DOMAIN seenMessages}

\* seenMessages.has(messageId)
IsDuplicate_Never(messageId) == FALSE

IsDuplicate(messageId) == messageId \in SeenSet

\* The eviction taking the newest ids instead of the oldest.
trackSeenIn_EvictNewest(seen, messageId) ==
    LET added == Append(seen, messageId)
        toRemove == Len(added) - ((maxSeenSize * 8) \div 10)
    IN IF Len(added) > maxSeenSize
       THEN SubSeq(added, 1, Len(added) - toRemove)
       ELSE added

\* The dedup set seen after messageId is added to it.
trackSeenIn(seen, messageId) ==
    LET added == Append(seen, messageId)
        toRemove == Len(added) - ((maxSeenSize * 8) \div 10)
    IN IF Len(added) > maxSeenSize
       THEN SubSeq(added, toRemove + 1, Len(added))
       ELSE added

trackSeen(messageId) == trackSeenIn(seenMessages, messageId)

\* age > ttlSeconds, with age = (Date.now() - timestamp) / 1000
Expired(message) ==
    /\ IsSet(message.ttlSeconds)
    /\ now - message.timestamp > Get(message.ttlSeconds) * MsPerSecond

HopLimitReached_OffByOne(hop) == hop > MAX_HOP_COUNT

HopLimitReached(hop) == hop >= MAX_HOP_COUNT

Matches(sub, message) ==
    /\ IsSet(sub.opts.payloadType) =>
          Get(sub.opts.payloadType) = message.payloadType
    /\ IsSet(sub.opts.fromAgentConfigId) =>
          Get(sub.opts.fromAgentConfigId) = message.from.agentConfigId
    /\ IsSet(sub.opts.fromRoleId) =>
          sub.opts.fromRoleId = message.from.roleId

\* The subscriptions whose handler is invoked, in invocation order.
deliverLocally(message) ==
    LET Match(sub) == Matches(sub, message)
        matching == SelectSeq(subscriptions, Match)
    IN [i \in DOMAIN matching |-> matching[i].id]

\* The sendToPeer calls: the peer and the hop count of the copy it is sent.
forwardToRemote(message) ==
    LET bumped == OrElse(message.hopCount, 0) + 1
    IN { [gatewayId |-> g, hopCount |-> bumped] :
           g \in { p \in DOMAIN peerGateways :
                     /\ peerGateways[p].status = "connected"
                     /\ IsSet(message.to) => Get(message.to).gatewayId = p } }

\* Every message taken as one for a local target.
isLocalTarget_Always(message) == TRUE

isLocalTarget(message) ==
    \/ ~IsSet(message.to)
    \/ Get(message.to).gatewayId = localGatewayId

isRemoteTarget(message) ==
    /\ IsSet(message.to)
    /\ Get(message.to).gatewayId # localGatewayId

\* What route(message) does: the dedup set afterwards and the record of the call.
RouteResult(op, message) ==
    LET id == message.messageId
        wasSeen == IsDuplicate(id)
        outcome == IF wasSeen THEN "duplicate"
                   ELSE IF Expired(message) THEN "expired"
                   ELSE IF HopLimitReached(OrElse(message.hopCount, 0)) THEN "hop-limit"
                   ELSE "routed"
        dropped == outcome # "routed"
        delivered == IF /\ ~dropped
                        /\ (isLocalTarget(message) \/ message.direction = "broadcast")
                     THEN deliverLocally(message) ELSE <<>>
        forwarded == IF /\ ~dropped
                        /\ (isRemoteTarget(message) \/ message.direction = "broadcast")
                     THEN forwardToRemote(message) ELSE {}
    IN [seen |-> IF wasSeen THEN seenMessages ELSE trackSeen(id),
        call |-> RtCall(op, id, OrElse(message.hopCount, 0), outcome,
                        delivered, forwarded)]

\* route(message), called directly (op = "route") or from send() (op = "send").
Routed(op, message) ==
    /\ seenMessages' = RouteResult(op, message).seen
    /\ rtLast' = RouteResult(op, message).call
    /\ UNCHANGED <<subscriptions, usedSubIds, peerGateways, outsideRouter>>

route(message) == Routed("route", message)

\* send(from, to, payload, opts): a new envelope with a fresh UUID, routed at once.
send(to, payloadType, direction, ttlSeconds) ==
    \E id \in MessageIds \ SeenSet :
        Routed("send",
               Message(id, now, to,
                       OrElse(direction, IF IsSet(to) THEN "request" ELSE "broadcast"),
                       ttlSeconds, Some(0), payloadType))

NextRouter ==
    \/ \E g \in PeerIds, st \in PeerStatuses : registerPeer(g, st)
    \/ \E g \in PeerIds : removePeer(g)
    \/ \E opts \in SubscriptionFilters : subscribe(opts)
    \/ \E i \in DOMAIN SubIds : unsubscribe(SubIds[i])
    \/ \E id \in MessageIds, ta \in TtlAndAge, to \in Recipients,
          dir \in Directions, hop \in HopInputs, pt \in PayloadTypes :
            route(Message(id, now - ta[2], to, dir, ta[1], hop, pt))
    \/ \E to \in Recipients, pt \in PayloadTypes,
          dir \in {None, Some("broadcast")}, ttl \in {None, Some(1)} :
            send(to, pt, dir, ttl)

\* Messages that pass the TTL check, within and at the hop limit, and the
\* calls that decide where they go.
ForwardHops == {Some(1), Some(MAX_HOP_COUNT)}
ForwardMessages ==
    { Message(id, now, to, dir, None, hop, pt) :
        id \in MessageIds, to \in Recipients, dir \in Directions,
        hop \in ForwardHops, pt \in PayloadTypes }

NextForward ==
    \/ \E g \in PeerIds, st \in PeerStatuses : registerPeer(g, st)
    \/ \E opts \in SubscriptionFilters : subscribe(opts)
    \/ \E message \in ForwardMessages : route(message)

\* Long runs of route() calls.  The message ids are numbered in the order
\* in which they are first routed, the n-th new id being n; the runs come in
\* steps of a hundredth of maxSeenSize.
SeenUnit == maxSeenSize \div 100
SeenRuns == {SeenUnit, 19 * SeenUnit, 20 * SeenUnit}
MaxSeenIds == 3 * maxSeenSize

\* The dedup set after trackSeen was called for the n new ids following
\* last.  The ids that leave the set within maxSeenSize are plain additions
\* (trackSeen's size test fails for them) and are added in one piece; the
\* id after them goes through trackSeenIn.
RECURSIVE TrackedRun(_, _, _)
TrackedRun(seen, last, n) ==
    IF n = 0 THEN seen
    ELSE LET room == maxSeenSize - Len(seen)
             plain == IF n - 1 < room THEN n - 1 ELSE room
             added == seen \o [i \in 1..plain |-> last + i]
         IN TrackedRun(trackSeenIn(added, last + plain + 1),
                       last + plain + 1, n - plain - 1)

\* The number of ids routed so far.
RoutedIds == IF seenMessages = <<>> THEN 0 ELSE seenMessages[Len(seenMessages)]

\* route() for n messages with new ids, one after the other; every message
\* passes the TTL and hop checks.
routeRun(n) ==
    /\ RoutedIds + n <= MaxSeenIds
    /\ seenMessages' = TrackedRun(seenMessages, RoutedIds, n)
    /\ LET message == Message(RoutedIds + n, now, None, "broadcast", None, None,
                              "heartbeat")
       IN rtLast' = RtCall("route", message.messageId, 0, "routed",
                           deliverLocally(message), forwardToRemote(message))
    /\ UNCHANGED <<subscriptions, usedSubIds, peerGateways, outsideRouter>>

\* route() for a message whose id is the back-th newest routed id.
routeAgain(back) ==
    /\ RoutedIds > back
    /\ route(Message(RoutedIds - back, now, None, "broadcast", None, None,
                     "heartbeat"))

\* The newest id and the oldest of the newest eight thousand.
AgainInputs == {0, (maxSeenSize * 8) \div 10 - 1}

NextSeen ==
    \/ \E n \in SeenRuns : routeRun(n)
    \/ \E back \in AgainInputs : routeAgain(back)

(***************************************************************************)
(* AgentSecurityManager                                                    *)
(***************************************************************************)

windowMs == 60000
maxAuditEntries == 10000
MaxRate == 2
MaxWindowCalls == 3
MaxAuditLen == 1

\* The agent whose calls are rate limited: the sender of the messages.
SecAgents == {Sender.agentConfigId}
DEFAULT_PERMISSIONS == {"task.assign", "report.read", "config.read"}

Policy(permissions, maxConcurrentTasks, maxMessagesPerMinute, allowCrossGateway) ==
    [permissions |-> permissions, maxConcurrentTasks |-> maxConcurrentTasks,
     maxMessagesPerMinute |-> maxMessagesPerMinute,
     allowCrossGateway |-> allowCrossGateway]

\* The policy of an agent that has none.
DefaultPolicy == Policy(DEFAULT_PERMISSIONS, 8, 120, FALSE)

\* The policies handed to setPolicy().
PolicyInputs ==
    {Policy(DEFAULT_PERMISSIONS, 8, k, FALSE) : k \in 1..MaxRate}
        \cup {Policy({"role.assign"}, 8, MaxRate, TRUE)}

\* The instants at which the security manager is called after time 0.
ClockPoints == {windowMs, windowMs + 1}

\* HMAC-SHA256 over {messageId, payload} under a secret, taken as collision free.
sharedSecret == "secret-A"
signMessage(secret, messageId, payload) == <<secret, messageId, payload>>

SignatureKinds == {"unsigned", "signed", "forged"}
WithSignature(message, kind) ==
    [message EXCEPT !.signature =
        IF kind = "unsigned" THEN None
        ELSE Some(signMessage(IF kind = "signed" THEN sharedSecret ELSE "secret-B",
                              message.messageId, message.payloadType))]

\* Payload types with and without a required permission.
PermissionPayloadTypes ==
    {"task.assign", "role.assign", "agent.discovery", "heartbeat"}

\* Payload types of the messages put before authorizeMessage().
AuthPayloadTypes == {"task.assign", "heartbeat"}

AuditEntry(timestamp, agentId, action, reason) ==
    [timestamp |-> timestamp, agentId |-> agentId, action |-> action,
     allowed |-> FALSE, reason |-> reason]

SecCall(op, agentId, ret, reason) ==
    [op |-> op, agentId |-> agentId, ret |-> ret, reason |-> reason,
     payloadType |-> "none", message |-> None, signedFor |-> None]

InitSecurity ==
    /\ policies = EmptyMap
    /\ rateLimiter = EmptyMap
    /\ auditLog = <<>>
    /\ auditTrimPending = FALSE
    /\ grants = [a \in SecAgents |-> <<>>]
    /\ authorizedIds = {}
    /\ secLast = SecCall("none", "none", "none", "none")

\* Time passes between calls.
Advance(t) ==
    /\ t > now
    /\ now' = t
    /\ secLast' = SecCall("advance", "none", "none", "none")
    /\ UNCHANGED <<policies, rateLimiter, auditLog, auditTrimPending, grants,
                   authorizedIds, outsideSecurity>>

setPolicy(agentId, policy) ==
    /\ policies' = MapSet(policies, agentId, policy)
    /\ grants' = [grants EXCEPT ![agentId] = <<>>]
    /\ secLast' = SecCall("setPolicy", agentId, "none", "none")
    /\ UNCHANGED <<rateLimiter, auditLog, auditTrimPending, authorizedIds, now,
                   outsideSecurity>>

removePolicy(agentId) ==
    /\ policies' = MapDelete(policies, agentId)
    /\ grants' = [grants EXCEPT ![agentId] = <<>>]
    /\ secLast' = SecCall("removePolicy", agentId, "none", "none")
    /\ UNCHANGED <<rateLimiter, auditLog, auditTrimPending, authorizedIds, now,
                   outsideSecurity>>

getPolicy(agentId) ==
    IF agentId \in DOMAIN policies THEN policies[agentId] ELSE DefaultPolicy

\* logAudit(entry); the trim it schedules runs in a later microtask.
logAudit(entry) ==
    /\ auditLog' = Append(auditLog, entry)
    /\ auditTrimPending' =
          (auditTrimPending \/ Len(auditLog) + 1 > maxAuditEntries)

\* The limiter entry of the agent once checkRateLimit has counted this call.
Counted(agentId) ==
    LET entry == IF \/ agentId \notin DOMAIN rateLimiter
                    \/ now - rateLimiter[agentId].windowStart > windowMs
                 THEN [count |-> 0, windowStart |-> now]
                 ELSE rateLimiter[agentId]
    IN [entry EXCEPT !.count = @ + 1]

\* The limit taken as exclusive.
WithinLimit_Exclusive(agentId) ==
    Counted(agentId).count < getPolicy(agentId).maxMessagesPerMinute

WithinLimit(agentId) ==
    Counted(agentId).count <= getPolicy(agentId).maxMessagesPerMinute

\* The state changes of checkRateLimit(agentId); its result is WithinLimit(agentId).
RateLimitChecked(agentId) ==
    /\ Counted(agentId).count <= MaxWindowCalls
    /\ rateLimiter' = MapSet(rateLimiter, agentId, Counted(agentId))
    /\ grants' = IF WithinLimit(agentId) /\ agentId \in DOMAIN grants
                 THEN [grants EXCEPT ![agentId] = Append(@, now)]
                 ELSE grants

RateLimitEntry(agentId) ==
    AuditEntry(now, agentId, "rate-limit.exceeded",
               Some(<<Counted(agentId).count, getPolicy(agentId).maxMessagesPerMinute>>))

checkRateLimit(agentId) ==
    /\ RateLimitChecked(agentId)
    /\ IF WithinLimit(agentId)
       THEN /\ UNCHANGED <<auditLog, auditTrimPending>>
            /\ secLast' = SecCall("checkRateLimit", agentId, "true", "none")
       ELSE /\ Len(auditLog) < MaxAuditLen
            /\ logAudit(RateLimitEntry(agentId))
            /\ secLast' = SecCall("checkRateLimit", agentId, "false", "none")
    /\ UNCHANGED <<policies, authorizedIds, now, outsideSecurity>>

\* The signature compared for the messageId alone.
verifySignature_IgnoresPayload(message) ==
    /\ IsSet(message.signature)
    /\ Get(message.signature)[1] = sharedSecret
    /\ Get(message.signature)[2] = message.messageId

verifySignature(message) ==
    /\ IsSet(message.signature)
    /\ Get(message.signature)
         = signMessage(sharedSecret, message.messageId, message.payloadType)

payloadToPermission(payloadType) ==
    CASE payloadType = "task.assign" -> Some("task.assign")
      [] payloadType = "role.assign" -> Some("role.assign")
      [] payloadType = "agent.discovery" -> Some("agent.register")
      [] OTHER -> None

\* The permission check made ahead of the signature check.
Denial_PermissionBeforeSignature(message) ==
    LET fromId == message.from.agentConfigId
        policy == getPolicy(fromId)
        toGateway == IF IsSet(message.to) THEN Some(Get(message.to).gatewayId) ELSE None
        isCrossGateway == Some(message.from.gatewayId) # toGateway
        requiredPermission == payloadToPermission(message.payloadType)
    IN IF ~WithinLimit(fromId) THEN "rate limit exceeded"
       ELSE IF isCrossGateway /\ ~policy.allowCrossGateway
            THEN "cross-gateway communication not allowed"
       ELSE IF /\ IsSet(requiredPermission)
               /\ Get(requiredPermission) \notin policy.permissions
            THEN "missing permission"
       ELSE IF IsSet(message.signature) /\ ~verifySignature(message)
            THEN "invalid message signature"
       ELSE "none"

\* A message without a recipient taken as staying on the sender's gateway.
Denial_UnaddressedIsLocal(message) ==
    LET fromId == message.from.agentConfigId
        policy == getPolicy(fromId)
        isCrossGateway == /\ IsSet(message.to)
                          /\ message.from.gatewayId # Get(message.to).gatewayId
        requiredPermission == payloadToPermission(message.payloadType)
    IN IF ~WithinLimit(fromId) THEN "rate limit exceeded"
       ELSE IF isCrossGateway /\ ~policy.allowCrossGateway
            THEN "cross-gateway communication not allowed"
       ELSE IF IsSet(message.signature) /\ ~verifySignature(message)
            THEN "invalid message signature"
       ELSE IF /\ IsSet(requiredPermission)
               /\ Get(requiredPermission) \notin policy.permissions
            THEN "missing permission"
       ELSE "none"

\* The reason authorizeMessage(message) returns, "none" when it allows.
Denial(message) ==
    LET fromId == message.from.agentConfigId
        policy == getPolicy(fromId)
        toGateway == IF IsSet(message.to) THEN Some(Get(message.to).gatewayId) ELSE None
        isCrossGateway == Some(message.from.gatewayId) # toGateway
        requiredPermission == payloadToPermission(message.payloadType)
    IN IF ~WithinLimit(fromId) THEN "rate limit exceeded"
       ELSE IF isCrossGateway /\ ~policy.allowCrossGateway
            THEN "cross-gateway communication not allowed"
       ELSE IF IsSet(message.signature) /\ ~verifySignature(message)
            THEN "invalid message signature"
       ELSE IF /\ IsSet(requiredPermission)
               /\ Get(requiredPermission) \notin policy.permissions
            THEN "missing permission"
       ELSE "none"

authorizeMessage(message) ==
    LET fromId == message.from.agentConfigId
        reason == Denial(message)
    IN /\ RateLimitChecked(fromId)
       /\ CASE reason = "rate limit exceeded" ->
                 /\ Len(auditLog) < MaxAuditLen
                 /\ logAudit(RateLimitEntry(fromId))
            [] reason = "cross-gateway communication not allowed" ->
                 /\ Len(auditLog) < MaxAuditLen
                 /\ logAudit(AuditEntry(now, fromId, "cross-gateway.denied",
                                        Some(reason)))
            [] reason = "invalid message signature" ->
                 /\ Len(auditLog) < MaxAuditLen
                 /\ logAudit(AuditEntry(now, fromId, "signature.invalid", None))
            [] OTHER -> UNCHANGED <<auditLog, auditTrimPending>>
       /\ authorizedIds' = IF reason = "none"
                           THEN authorizedIds \cup {message.messageId}
                           ELSE authorizedIds
       /\ secLast' = [SecCall("authorizeMessage", fromId,
                              IF reason = "none" THEN "true" ELSE "false", reason)
                         EXCEPT !.payloadType = message.payloadType]
       /\ UNCHANGED <<policies, now, outsideSecurity>>

NextSecurity ==
    \/ \E t \in ClockPoints : Advance(t)
    \/ \E a \in SecAgents, p \in PolicyInputs : setPolicy(a, p)
    \/ \E a \in SecAgents : removePolicy(a)
    \/ \E a \in SecAgents : checkRateLimit(a)
    \/ \E id \in MessageIds, to \in Recipients, pt \in AuthPayloadTypes,
          kind \in SignatureKinds :
            authorizeMessage(WithSignature(
                Message(id, now, to, "request", None, None, pt), kind))

\* exportPolicies() returns [...policies.values()]: a new array of the policy
\* objects the map holds.  exportPolicies().find(p => p.agentId === agentId)
\* .permissions.push(permission) therefore writes to the stored policy.
writeExportedPolicy(agentId, permission) ==
    /\ agentId \in DOMAIN policies
    /\ permission \notin policies[agentId].permissions
    /\ policies' = [policies EXCEPT ![agentId].permissions = @ \cup {permission}]
    /\ secLast' = SecCall("writeExportedPolicy", agentId, "none", "none")
    /\ UNCHANGED <<rateLimiter, auditLog, auditTrimPending, grants, authorizedIds,
                   now, outsideSecurity>>

\* A caller signs a message, the message is changed on its way, and the
\* receiver verifies it.  The call record keeps the message in hand and the
\* messageId and payload its signature was computed for.
SigCall(op, message, signedFor, ret) ==
    [SecCall(op, "none", ret, "none")
       EXCEPT !.message = Some(message), !.signedFor = signedFor]

\* envelope.signature = signMessage(envelope, payload) on a new message.
signEnvelope(messageId, payloadType) ==
    /\ secLast' = SigCall("signMessage",
                          WithSignature(Message(messageId, now, None, "broadcast",
                                                None, None, payloadType), "signed"),
                          Some(<<messageId, payloadType>>), "none")
    /\ UNCHANGED <<policies, rateLimiter, auditLog, auditTrimPending, grants,
                   authorizedIds, now, outsideSecurity>>

\* The message in hand with another payload, another messageId, or without
\* its signature.
replacePayload(payloadType) ==
    /\ IsSet(secLast.message)
    /\ payloadType # Get(secLast.message).payloadType
    /\ secLast' = SigCall("replacePayload",
                          [Get(secLast.message) EXCEPT !.payloadType = payloadType],
                          secLast.signedFor, "none")
    /\ UNCHANGED <<policies, rateLimiter, auditLog, auditTrimPending, grants,
                   authorizedIds, now, outsideSecurity>>

replaceMessageId(messageId) ==
    /\ IsSet(secLast.message)
    /\ messageId # Get(secLast.message).messageId
    /\ secLast' = SigCall("replaceMessageId",
                          [Get(secLast.message) EXCEPT !.messageId = messageId],
                          secLast.signedFor, "none")
    /\ UNCHANGED <<policies, rateLimiter, auditLog, auditTrimPending, grants,
                   authorizedIds, now, outsideSecurity>>

removeSignature ==
    /\ IsSet(secLast.message)
    /\ IsSet(Get(secLast.message).signature)
    /\ secLast' = SigCall("removeSignature",
                          [Get(secLast.message) EXCEPT !.signature = None],
                          None, "none")
    /\ UNCHANGED <<policies, rateLimiter, auditLog, auditTrimPending, grants,
                   authorizedIds, now, outsideSecurity>>

\* verifySignature(envelope, payload) on the message in hand.
verifyEnvelope ==
    /\ IsSet(secLast.message)
    /\ secLast' = SigCall("verifySignature", Get(secLast.message),
                          secLast.signedFor,
                          IF verifySignature(Get(secLast.message))
                          THEN "true" ELSE "false")
    /\ UNCHANGED <<policies, rateLimiter, auditLog, auditTrimPending, grants,
                   authorizedIds, now, outsideSecurity>>

NextSignature ==
    \/ \E id \in MessageIds, pt \in PermissionPayloadTypes : signEnvelope(id, pt)
    \/ \E pt \in PermissionPayloadTypes : replacePayload(pt)
    \/ \E id \in MessageIds : replaceMessageId(id)
    \/ removeSignature
    \/ verifyEnvelope

\* The entry hasPermission(agentId, permission) logs.
PermissionEntry(agentId, permission) ==
    LET allowed == permission \in getPolicy(agentId).permissions
    IN [AuditEntry(now, agentId, <<"permission.check", permission>>,
                   IF allowed THEN None
                   ELSE Some(<<"missing permission", permission>>))
          EXCEPT !.allowed = allowed]

\* The number of entries one trim drops.
trimCount == (maxAuditEntries * 2) \div 10

\* The sizes of the synchronous runs of hasPermission calls, in steps of a
\* hundredth of maxAuditEntries, and the longest log they build.
BurstUnit == maxAuditEntries \div 100
BurstSizes == {BurstUnit, trimCount, trimCount + BurstUnit, maxAuditEntries}
MaxBurstLog == maxAuditEntries + trimCount + BurstUnit
PermissionInputs == {"role.manage"}

\* n calls of hasPermission(agentId, permission) made without returning to
\* the event loop: each call logs its entry, and the first one that finds the
\* log over maxAuditEntries with no trim pending schedules the trim.
hasPermissionBurst(agentId, permission, n) ==
    /\ Len(auditLog) + n <= MaxBurstLog
    /\ LET entry == PermissionEntry(agentId, permission)
       IN auditLog' = auditLog \o [i \in 1..n |-> entry]
    /\ auditTrimPending' =
          (auditTrimPending \/ Len(auditLog) + n > maxAuditEntries)
    /\ secLast' = SecCall("hasPermission", agentId,
                          IF PermissionEntry(agentId, permission).allowed
                          THEN "true" ELSE "false", "none")
    /\ UNCHANGED <<policies, rateLimiter, grants, authorizedIds, now,
                   outsideSecurity>>

\* The microtask logAudit queued.
runAuditTrim ==
    /\ auditTrimPending
    /\ auditLog' = IF Len(auditLog) > maxAuditEntries
                   THEN SubSeq(auditLog, trimCount + 1, Len(auditLog))
                   ELSE auditLog
    /\ auditTrimPending' = FALSE
    /\ secLast' = SecCall("auditTrim", "none", "none", "none")
    /\ UNCHANGED <<policies, rateLimiter, grants, authorizedIds, now,
                   outsideSecurity>>

NextAudit ==
    \/ \E a \in SecAgents, perm \in PermissionInputs, n \in BurstSizes :
          hasPermissionBurst(a, perm, n)
    \/ runAuditTrim

\* The messages of these types put before authorizeMessage().
AuthMessages ==
    { WithSignature(Message("m1", now, to, "request", None, None, pt), kind) :
        to \in Recipients, pt \in PermissionPayloadTypes, kind \in SignatureKinds }

\* Messages that name no recipient, put before authorizeMessage().
UnaddressedMessages ==
    { WithSignature(Message("b1", now, None, "broadcast", None, None, pt), kind) :
        pt \in AuthPayloadTypes, kind \in SignatureKinds }

NextUnaddressed ==
    \/ \E p \in PolicyInputs : setPolicy(Sender.agentConfigId, p)
    \/ removePolicy(Sender.agentConfigId)
    \/ \E message \in UnaddressedMessages : authorizeMessage(message)

NextAuthorize ==
    \/ \E p \in PolicyInputs : setPolicy(Sender.agentConfigId, p)
    \/ \E message \in AuthMessages : authorizeMessage(message)

(***************************************************************************)
(* The Orchestrator's wiring of the router and the security manager: it    *)
(* constructs both, subscribes its handlers to the router and hands every  *)
(* inbound message to route(); authorizeMessage() is there for whoever     *)
(* holds the orchestrator to call.                                         *)
(***************************************************************************)

NextGate ==
    \/ \E opts \in {Filter(None, None, None)} : subscribe(opts)
    \/ \E g \in {"gw-3"} : registerPeer(g, "connected")
    \/ \E p \in PolicyInputs : setPolicy(Sender.agentConfigId, p)
    \/ \E id \in MessageIds, to \in Recipients, pt \in AuthPayloadTypes,
          kind \in SignatureKinds :
            authorizeMessage(WithSignature(
                Message(id, now, to, "request", None, None, pt), kind))
    \/ \E id \in MessageIds, to \in Recipients, pt \in AuthPayloadTypes,
          kind \in SignatureKinds :
            route(WithSignature(
                Message(id, now, to, "request", None, None, pt), kind))

(***************************************************************************)
(* Callers that write to the objects of an exported snapshot               *)
(***************************************************************************)

NextExport ==
    \/ \E id \in DefinableRoleIds, q \in QuotaInputs :
          defineRole(Role(id, q, CustomPriority))
    \/ \E a \in TrackerAgents, id \in AssignableRoleIds : assignRole(a, id, "admin")
    \/ \E p \in PolicyInputs : setPolicy(Sender.agentConfigId, p)
    \/ \E id \in AssignableRoleIds, q \in 1..MaxQuota : writeExportedRole(id, q)
    \/ \E a \in TrackerAgents, id \in {"coder", "reviewer"} :
          writeExportedAssignment(a, FreshManager.roles[id])
    \/ \E perm \in {"role.manage"} :
          writeExportedPolicy(Sender.agentConfigId, perm)

(***************************************************************************)
(* MultiAgentOrchestrator                                                  *)
(***************************************************************************)

OrCall(op, selected, taskId, sent) ==
    [op |-> op, selected |-> selected, taskId |-> taskId, sent |-> sent]

\* No handler subscribed, nothing dispatched.
InitDispatch ==
    /\ handlers = EmptyMap
    /\ dispatchLog = <<>>

\* No agent registered, no heartbeat received.
InitRegistry ==
    /\ localAgents = <<>>
    /\ agentHeartbeats = EmptyMap
    /\ orLast = OrCall("none", None, "none", <<>>)
    /\ cleanupTimer = None
    /\ timers = EmptyMap

discoveryTtlSeconds == 300

\* The agents that register, the roles they ask for, the loads they report.
OrchAgents == {"A1", "A2"}
OrchRoleInputs == {None, Some("coder"), Some("monitor")}
LoadInputs == {0, 1}

\* submitTask's targetRoleId, targetAgentInstanceId and requestedBy.
TargetRoleInputs == {None, Some("coder"), Some("monitor")}
TargetAgentInputs == {None} \cup {Some(a) : a \in OrchAgents}

\* The UUIDs of the envelopes that send() builds, in the order it draws them.
OrchMessageIds == <<"u1", "u2", "u3", "u4">>

AgentIdentity(agentInstanceId) ==
    [agentInstanceId |-> agentInstanceId, agentConfigId |-> "cfg-1",
     roleId |-> None, gatewayId |-> localGatewayId]

getOrchestratorIdentity ==
    [agentInstanceId |-> "00000000-0000-0000-0000-000000000000",
     agentConfigId |-> "__orchestrator__",
     roleId |-> Some("orchestrator"), gatewayId |-> localGatewayId]

RequesterInputs == {None, Some(AgentIdentity("A1"))}

\* The envelope and payload that send(from, to, payload, opts) builds.
Envelope(messageId, from, to, direction, ttlSeconds, payload) ==
    [messageId |-> messageId, timestamp |-> now, from |-> from, to |-> to,
     direction |-> direction, ttlSeconds |-> ttlSeconds, hopCount |-> Some(0),
     signature |-> None, payloadType |-> payload.type, payload |-> payload]

\* setupMessageHandlers: the four subscriptions of the constructor.
OrchestratorSubscriptions ==
    << [id |-> "onTaskResult", opts |-> Filter(Some("task.result"), None, None)],
       [id |-> "onTaskProgress", opts |-> Filter(Some("task.progress"), None, None)],
       [id |-> "onHeartbeat", opts |-> Filter(Some("heartbeat"), None, None)],
       [id |-> "onDiscovery", opts |-> Filter(Some("agent.discovery"), None, None)] >>

\* The orchestrator after its constructor: the components as constructed, with
\* the four handlers subscribed on the router.
InitOrchestrator ==
    /\ InitRoles
    /\ InitTracker
    /\ InitSecurity
    /\ InitRegistry
    /\ InitDispatch
    /\ InitClock
    /\ subscriptions = OrchestratorSubscriptions
    /\ usedSubIds = {OrchestratorSubscriptions[i].id : i \in DOMAIN OrchestratorSubscriptions}
    /\ peerGateways = EmptyMap
    /\ seenMessages = <<>>
    /\ rtLast = NoRoute

Registered == {localAgents[i] : i \in DOMAIN localAgents}

\* localAgents.set(agent.agentInstanceId, agent): a known key keeps its place.
registerLocalAgent(agent) ==
    IF agent \in Registered THEN localAgents ELSE Append(localAgents, agent)

unregisterLocalAgent(agent) ==
    LET Other(a) == a # agent
    IN SelectSeq(localAgents, Other)

\* The events the discovery handler emits for the subscriptions a discovery
\* message was delivered to.
DiscoveryEvents(delivered, payload) ==
    LET IsDiscovery(id) == id = "onDiscovery"
        runs == SelectSeq(delivered, IsDiscovery)
    IN [i \in DOMAIN runs |->
          IF payload.action \in {"join", "announce"}
          THEN [type |-> "agent.joined", agent |-> payload.agent]
          ELSE [type |-> "agent.left", agentInstanceId |-> payload.agent]]

registerAgent(agent, roleId) ==
    /\ Len(seenMessages) < Len(OrchMessageIds)
    /\ LET refused == IsSet(roleId) /\ AssignRefused(agent, Get(roleId))
           payload == [type |-> "agent.discovery", action |-> "join", agent |-> agent]
           message == Envelope(OrchMessageIds[Len(seenMessages) + 1],
                               AgentIdentity(agent), None, "broadcast",
                               Some(discoveryTtlSeconds), payload)
           routed == RouteResult("send", message)
       IN /\ localAgents' = registerLocalAgent(agent)
          /\ assignments' = IF IsSet(roleId) /\ ~refused
                            THEN RoleAssigned(agent, Get(roleId), "orchestrator")
                            ELSE assignments
          /\ rmLast' = IF IsSet(roleId)
                       THEN Call("assignRole", agent, Get(roleId),
                                 IF refused THEN "null" ELSE "assignment",
                                 HeldRole(agent))
                       ELSE rmLast
          /\ seenMessages' = routed.seen
          /\ rtLast' = routed.call
          /\ events' = DiscoveryEvents(routed.call.delivered, payload)
                         \o << [type |-> "agent.joined", agent |-> agent] >>
                         \o (IF IsSet(roleId)
                             THEN << [type |-> "role.assigned", agentInstanceId |-> agent,
                                      roleId |-> Get(roleId)] >>
                             ELSE <<>>)
          /\ orLast' = OrCall("registerAgent", None, "none",
                              << [type |-> payload.type, to |-> None] >>)
    /\ UNCHANGED <<roles, tasks, agentTaskIndex, workflowTaskIndex, stepIndex,
                   usedTaskIds, wtLast, subscriptions, usedSubIds, peerGateways,
                   varsSecurity, varsDispatch, varsTimers, agentHeartbeats, now>>

unregisterAgent(agent) ==
    /\ localAgents' = unregisterLocalAgent(agent)
    /\ assignments' = MapDelete(assignments, agent)
    /\ rmLast' = Call("unassignRole", "none", "none",
                      IF agent \in DOMAIN assignments THEN "true" ELSE "false", "none")
    /\ agentHeartbeats' = MapDelete(agentHeartbeats, agent)
    /\ events' = << [type |-> "agent.left", agentInstanceId |-> agent] >>
    /\ orLast' = OrCall("unregisterAgent", None, "none", <<>>)
    /\ UNCHANGED <<roles, tasks, agentTaskIndex, workflowTaskIndex, stepIndex,
                   usedTaskIds, wtLast, varsRouter, varsSecurity, varsDispatch, varsTimers, now>>

\* Orchestrator.assignRole(agentInstanceId, roleId): false for an agent that
\* is not local or an assignment that is refused; else the role.assign
\* request to the agent and the role.assigned event.
orchestratorAssignRole(agent, roleId) ==
    IF agent \notin Registered
    THEN /\ orLast' = OrCall("assignRole", None, "none", <<>>)
         /\ events' = <<>>
         /\ UNCHANGED <<varsRoles, tasks, agentTaskIndex, workflowTaskIndex, stepIndex,
                        usedTaskIds, wtLast, varsRouter, varsSecurity, varsDispatch,
                        varsTimers, localAgents, agentHeartbeats, now>>
    ELSE IF AssignRefused(agent, roleId)
    THEN /\ rmLast' = Call("assignRole", agent, roleId, "null", HeldRole(agent))
         /\ orLast' = OrCall("assignRole", None, "none", <<>>)
         /\ events' = <<>>
         /\ UNCHANGED <<roles, assignments, tasks, agentTaskIndex, workflowTaskIndex,
                        stepIndex, usedTaskIds, wtLast, varsRouter, varsSecurity,
                        varsDispatch, varsTimers, localAgents, agentHeartbeats, now>>
    ELSE /\ Len(seenMessages) < Len(OrchMessageIds)
         /\ LET payload == [type |-> "role.assign", targetAgentInstanceId |-> agent]
                message == Envelope(OrchMessageIds[Len(seenMessages) + 1],
                                    getOrchestratorIdentity,
                                    Some(AgentIdentity(agent)), "request", None, payload)
                routed == RouteResult("send", message)
            IN /\ assignments' = RoleAssigned(agent, roleId, "orchestrator")
               /\ rmLast' = Call("assignRole", agent, roleId, "assignment",
                                 HeldRole(agent))
               /\ seenMessages' = routed.seen
               /\ rtLast' = routed.call
               /\ events' = << [type |-> "role.assigned", agentInstanceId |-> agent,
                                roleId |-> roleId] >>
               /\ orLast' = OrCall("assignRole", Some(agent), "none",
                                   << [type |-> payload.type, to |-> Some(agent)] >>)
         /\ UNCHANGED <<roles, tasks, agentTaskIndex, workflowTaskIndex, stepIndex,
                        usedTaskIds, wtLast, subscriptions, usedSubIds, peerGateways,
                        varsSecurity, varsDispatch, varsTimers, localAgents,
                        agentHeartbeats, now>>

\* A heartbeat handler that hands the pending tasks to the reporting agent.
onHeartbeat_Dispatches(agent, load) ==
    LET pending == {t \in DOMAIN tasks : tasks[t].status = "pending"}
    IN /\ agentHeartbeats' = MapSet(agentHeartbeats, agent,
                                    [load |-> load, receivedAt |-> now])
       /\ tasks' = [t \in DOMAIN tasks |->
                      IF t \in pending THEN Started(Assigned(tasks[t], agent))
                      ELSE tasks[t]]
       /\ agentTaskIndex' =
              IF pending = {} THEN agentTaskIndex
              ELSE MapSet(agentTaskIndex, agent,
                          (IF agent \in DOMAIN agentTaskIndex
                           THEN agentTaskIndex[agent] ELSE {}) \cup pending)
       /\ events' = <<>>
       /\ orLast' = OrCall("heartbeat", None, "none", <<>>)
       /\ UNCHANGED <<varsRoles, workflowTaskIndex, stepIndex, usedTaskIds, wtLast,
                      varsRouter, varsSecurity, varsDispatch, varsTimers,
                      localAgents, now>>

\* Handler for a delivered heartbeat message from agent.
onHeartbeat(agent, load) ==
    /\ agentHeartbeats' = MapSet(agentHeartbeats, agent,
                                 [load |-> load, receivedAt |-> now])
    /\ events' = <<>>
    /\ orLast' = OrCall("heartbeat", None, "none", <<>>)
    /\ UNCHANGED <<varsRoles, tasks, agentTaskIndex, workflowTaskIndex, stepIndex,
                   usedTaskIds, wtLast, varsRouter, varsSecurity, varsDispatch, varsTimers,
                   localAgents, now>>

\* selectAgent's (load, priority) pair of a candidate.
withLoad(agent) ==
    [agent |-> agent,
     load |-> IF agent \in DOMAIN agentHeartbeats
              THEN agentHeartbeats[agent].load ELSE 0,
     priority |-> IF agent \in DOMAIN assignments
                  THEN assignments[agent].role.priority ELSE DefaultPriority]

\* The comparator of selectAgent's sort is negative: a goes before b.
SortsBefore(a, b) ==
    IF a.load # b.load THEN a.load < b.load ELSE b.priority - a.priority < 0

\* The head of the array after the (stable) sort: the first element that no
\* other element goes before.
SortedHead(seq) ==
    LET IsHead(i) == \A j \in DOMAIN seq : ~SortsBefore(seq[j], seq[i])
    IN seq[CHOOSE i \in DOMAIN seq :
               IsHead(i) /\ \A k \in 1..(i - 1) : ~IsHead(k)]

\* selectAgent with the two sort keys exchanged.
selectAgent_PriorityFirst(targetRoleId, targetAgentInstanceId) ==
    IF localAgents = <<>> THEN None
    ELSE LET Best(a) ==
                 \A b \in Registered :
                     \/ withLoad(b).priority < withLoad(a).priority
                     \/ /\ withLoad(b).priority = withLoad(a).priority
                        /\ withLoad(b).load >= withLoad(a).load
             best == SelectSeq(localAgents, Best)
         IN IF best = <<>> THEN None ELSE Some(Head(best))

selectAgent(targetRoleId, targetAgentInstanceId) ==
    IF localAgents = <<>> THEN None
    ELSE IF IsSet(targetAgentInstanceId)
    THEN (IF Get(targetAgentInstanceId) \in Registered
          THEN targetAgentInstanceId ELSE None)
    ELSE LET HoldsRole(a) == a \in getAgentsWithRole(Get(targetRoleId))
             candidates == IF IsSet(targetRoleId)
                           THEN SelectSeq(localAgents, HoldsRole)
                           ELSE localAgents
         IN IF candidates = <<>> THEN None
            ELSE Some(SortedHead([i \in DOMAIN candidates |->
                                     withLoad(candidates[i])]).agent)

submitTask(opts, workflowStepId, targetRoleId, targetAgentInstanceId, requestedBy) ==
    LET targetAgent == selectAgent(targetRoleId, targetAgentInstanceId)
    IN /\ usedTaskIds # TaskIds
       /\ IsSet(targetAgent) => Len(seenMessages) < Len(OrchMessageIds)
       /\ LET taskId == CHOOSE t \in TaskIds \ usedTaskIds : TRUE
              tracked == Tracked(taskId, workflowStepId, None, opts)
              created == [type |-> "task.created", taskId |-> taskId]
          IN /\ usedTaskIds' = usedTaskIds \cup {taskId}
             /\ workflowTaskIndex' = PlanIndexed(opts.workflowPlanId, taskId)
             /\ stepIndex' = StepIndexed(workflowStepId, taskId)
             /\ IF ~IsSet(targetAgent)
                THEN /\ tasks' = MapSet(tasks, taskId, tracked)
                     /\ wtLast' = WtCall("createTask", taskId, "task")
                     /\ events' = <<created>>
                     /\ orLast' = OrCall("submitTask", None, taskId, <<>>)
                     /\ UNCHANGED <<agentTaskIndex, seenMessages, rtLast>>
                ELSE LET agent == Get(targetAgent)
                         assigned == IF CanAssign(tracked)
                                     THEN Assigned(tracked, agent) ELSE tracked
                         started == IF assigned.status = "assigned"
                                    THEN Started(assigned) ELSE assigned
                         payload == [type |-> "task.assign", task |-> opts.task,
                                     priority |-> opts.priority,
                                     workflowStepId |-> workflowStepId]
                         message == Envelope(OrchMessageIds[Len(seenMessages) + 1],
                                             OrElse(requestedBy, getOrchestratorIdentity),
                                             Some(AgentIdentity(agent)), "request",
                                             None, payload)
                         routed == RouteResult("send", message)
                     IN /\ tasks' = MapSet(tasks, taskId, started)
                        /\ agentTaskIndex' =
                               IF CanAssign(tracked)
                               THEN SetIndexed(agentTaskIndex, agent, taskId)
                               ELSE agentTaskIndex
                        /\ wtLast' = WtCall("startTask", taskId,
                                            IF assigned.status = "assigned"
                                            THEN "true" ELSE "false")
                        /\ seenMessages' = routed.seen
                        /\ rtLast' = routed.call
                        /\ events' = <<created>>
                                       \o DiscoveryEvents(routed.call.delivered, payload)
                                       \o << [type |-> "task.assigned", taskId |-> taskId,
                                              agentInstanceId |-> agent] >>
                        /\ orLast' = OrCall("submitTask", targetAgent, taskId,
                                            << [type |-> payload.type,
                                                to |-> Some(agent)] >>)
       /\ UNCHANGED <<varsRoles, subscriptions, usedSubIds, peerGateways,
                      varsSecurity, varsDispatch, varsTimers, localAgents, agentHeartbeats, now>>

\* The handles setInterval returns, in the order it creates them, and the
\* UUIDs of the envelopes that send() builds once those of OrchMessageIds
\* are used up.
TimerIds == <<"i1", "i2", "i3">>
BroadcastIds == OrchMessageIds \o <<"u5", "u6", "u7", "u8">>
taskMaxAgeMs == 86400000

\* broadcastDiscovery(agent, action), for every agent of getLocalAgents(): the
\* messages sent, in order.
RECURSIVE BroadcastFrom(_, _, _)
BroadcastFrom(agents, action, sent) ==
    IF agents = <<>> \/ sent >= Len(BroadcastIds) THEN <<>>
    ELSE << Envelope(BroadcastIds[sent + 1], AgentIdentity(Head(agents)),
                     None, "broadcast", Some(discoveryTtlSeconds),
                     [type |-> "agent.discovery", action |-> action,
                      agent |-> Head(agents)]) >>
           \o BroadcastFrom(Tail(agents), action, sent + 1)

BroadcastAll(action) == BroadcastFrom(localAgents, action, Len(seenMessages))

\* What the call record keeps of the messages sent.
RECURSIVE SentRecords(_)
SentRecords(messages) ==
    IF messages = <<>> THEN <<>>
    ELSE << [type |-> Head(messages).payload.type,
             action |-> Head(messages).payload.action,
             agent |-> Head(messages).payload.agent,
             direction |-> Head(messages).direction] >>
           \o SentRecords(Tail(messages))

RECURSIVE TrackedAll(_, _)
TrackedAll(seen, messages) ==
    IF messages = <<>> THEN seen
    ELSE TrackedAll(trackSeenIn(seen, Head(messages).messageId), Tail(messages))

\* The events the discovery handler emits while messages are routed.
RECURSIVE BroadcastEvents(_)
BroadcastEvents(messages) ==
    IF messages = <<>> THEN <<>>
    ELSE DiscoveryEvents(RouteResult("send", Head(messages)).call.delivered,
                         Head(messages).payload)
           \o BroadcastEvents(Tail(messages))

\* The router's part of start() and stop(): every message is routed at once.
Broadcasted(op, action) ==
    LET messages == BroadcastAll(action)
    IN /\ Len(seenMessages) + Len(localAgents) <= Len(BroadcastIds)
       /\ seenMessages' = TrackedAll(seenMessages, messages)
       /\ rtLast' = IF messages = <<>> THEN rtLast
                    ELSE RouteResult("send", messages[Len(messages)]).call
       /\ events' = BroadcastEvents(messages)
       /\ orLast' = OrCall(op, None, "none", SentRecords(messages))

\* start(): a new cleanup interval, its handle stored in cleanupTimer, then
\* an announce for every local agent.
start ==
    /\ Cardinality(DOMAIN timers) < Len(TimerIds)
    /\ LET handle == TimerIds[Cardinality(DOMAIN timers) + 1]
       IN /\ timers' = MapSet(timers, handle, "active")
          /\ cleanupTimer' = Some(handle)
    /\ Broadcasted("start", "announce")
    /\ UNCHANGED <<varsRoles, tasks, agentTaskIndex, workflowTaskIndex, stepIndex,
                   usedTaskIds, wtLast, subscriptions, usedSubIds, peerGateways,
                   varsSecurity, varsDispatch, localAgents, agentHeartbeats, now>>

\* stop(), and shutdown() which calls it: the stored handle is cleared, then
\* a leave for every local agent.
stop ==
    /\ timers' = IF IsSet(cleanupTimer)
                 THEN MapSet(timers, Get(cleanupTimer), "cleared")
                 ELSE timers
    /\ cleanupTimer' = None
    /\ Broadcasted("stop", "leave")
    /\ UNCHANGED <<varsRoles, tasks, agentTaskIndex, workflowTaskIndex, stepIndex,
                   usedTaskIds, wtLast, subscriptions, usedSubIds, peerGateways,
                   varsSecurity, varsDispatch, localAgents, agentHeartbeats, now>>

\* The callback of an interval that is still scheduled.
cleanupTimerFires(handle) ==
    /\ handle \in DOMAIN timers
    /\ timers[handle] = "active"
    /\ cleanup(taskMaxAgeMs)

\* Nine tasks, one more than the default maxConcurrentTasks, created in the
\* order of their ids and assigned to one agent, whose policy may be set to
\* a single concurrent task.
ConcurrentTaskIds == <<"c1", "c2", "c3", "c4", "c5", "c6", "c7", "c8", "c9">>
SingleTaskPolicy == Policy(DEFAULT_PERMISSIONS, 1, 120, FALSE)

\* The tasks with status assigned or in-progress whose assignee is agent.
ActiveTasksOf(agent) ==
    {id \in DOMAIN tasks :
        /\ tasks[id].status \in {"assigned", "in-progress"}
        /\ tasks[id].assignedTo = Some(agent)}

\* createTask for the i-th task, once the tasks before it exist.
createTaskInOrder(i) ==
    /\ Cardinality(usedTaskIds) = i - 1
    /\ createTask(ConcurrentTaskIds[i], None, None, FullOpts)

NextConcurrent ==
    \/ \E a \in SecAgents : setPolicy(a, SingleTaskPolicy)
    \/ \E i \in DOMAIN ConcurrentTaskIds : createTaskInOrder(i)
    \/ \E i \in DOMAIN ConcurrentTaskIds, a \in TrackerAgents :
          assignTask(ConcurrentTaskIds[i], a)

\* One task submitted with or without a registered agent, failed and
\* retried, while the orchestrator registers the agent, assigns roles,
\* receives heartbeats, starts and runs its cleanup.
NextPending ==
    \/ \E a \in TrackerAgents, r \in {None, Some("coder")} : registerAgent(a, r)
    \/ \E a \in TrackerAgents, r \in {"coder", "monitor"} : orchestratorAssignRole(a, r)
    \/ \E a \in TrackerAgents : onHeartbeat(a, 1)
    \/ start
    \/ \E i \in DOMAIN TimerIds : cleanupTimerFires(TimerIds[i])
    \/ submitTask(FullOpts, Some("s1"), None, None, None)
    \/ \E t \in TaskIds : completeTask(t, "failure")
    \/ \E t \in TaskIds : retryTask(t)
    \/ \E t \in TaskIds, a \in TrackerAgents : assignTask(t, a)

NextLifecycle ==
    \/ \E a \in OrchAgents : registerAgent(a, None)
    \/ \E a \in OrchAgents : unregisterAgent(a)
    \/ start
    \/ stop
    \/ \E i \in DOMAIN TimerIds : cleanupTimerFires(TimerIds[i])

NextOrchestrator ==
    \/ \E a \in OrchAgents, r \in OrchRoleInputs : registerAgent(a, r)
    \/ \E a \in OrchAgents : unregisterAgent(a)
    \/ \E a \in OrchAgents, l \in LoadInputs : onHeartbeat(a, l)
    \/ \E o \in TrackerOpts, s \in StepInputs, tr \in TargetRoleInputs,
          ta \in TargetAgentInputs, rb \in RequesterInputs :
            submitTask(o, s, tr, ta, rb)

(***************************************************************************)
(* Local dispatch with handlers that send                                  *)
(*                                                                         *)
(* deliverLocally calls the handlers one after the other, and send() routes *)
(* its message before it returns.  A handler that calls send() while it is  *)
(* processing a message therefore has its own message delivered to every    *)
(* matching subscription before deliverLocally moves on to the next         *)
(* subscription of the message being processed.                             *)
(***************************************************************************)

\* What a subscribed handler does: an observer only receives; a relay answers
\* a task.result by sending a heartbeat from the same sender to the same
\* recipient before it returns; a thrower throws synchronously; a rejecter
\* returns a promise that rejects.
HandlerKinds == {"observer", "relay", "thrower", "rejecter"}

\* How the call sub.handler(message) ends for a handler of the given kind.
HandlerOutcome(kind) ==
    IF kind = "thrower" THEN "throws"
    ELSE IF kind = "rejecter" THEN "rejects"
    ELSE "returns"

LoopContinues_NoCatch(outcome) == outcome \in {"returns", "rejects"}

\* Whether the loop of deliverLocally goes on to the next subscription after
\* a handler call that ended with outcome: the call sits in a try block whose
\* catch clause only logs, and a returned promise is given a catch handler.
LoopContinues(outcome) == outcome \in {"returns", "rejects", "throws"}
RelayTrigger == "task.result"
RelayAnswer == "heartbeat"

\* The UUIDs of the envelopes that send() builds, in the order it draws them.
DispatchIds == <<"d1", "d2", "d3", "d4">>
IdIndex(messageId) == CHOOSE i \in DOMAIN DispatchIds : DispatchIds[i] = messageId

\* The peer gateway of the dispatch runs.
DispatchPeer == "gw-2"

\* Recipients on this gateway.
LocalRecipients == {to \in Recipients : IsSet(to) => Get(to).gatewayId = localGatewayId}

\* subscribe(opts, handler) with a handler of the given kind.
subscribeHandler(opts, kind) ==
    /\ Cardinality(usedSubIds) < Len(SubIds)
    /\ LET id == SubIds[Cardinality(usedSubIds) + 1]
       IN /\ subscriptions' = Append(subscriptions, [id |-> id, opts |-> opts])
          /\ usedSubIds' = usedSubIds \cup {id}
          /\ handlers' = MapSet(handlers, id, kind)
    /\ rtLast' = NoRoute
    /\ dispatchLog' = <<>>
    /\ UNCHANGED <<peerGateways, seenMessages, varsRoles, varsTracker, varsSecurity,
                   varsOrchestrator, varsTimers, now>>

Relays(id, message) ==
    handlers[id] = "relay" /\ message.payloadType = RelayTrigger

\* The message a relay sends while it processes message: the n-th envelope
\* drawn after message's own.
Answer(message, n) ==
    [message EXCEPT !.messageId = DispatchIds[IdIndex(message.messageId) + n],
                    !.payloadType = RelayAnswer]

Invocation(sub, message) == [sub |-> sub, messageId |-> message.messageId]

\* The loop of deliverLocally over the matching subscriptions subs, sent
\* being the number of messages the handlers before them have sent: each
\* handler is invoked with message, and a relay's send() is routed and
\* delivered inside that invocation.
RECURSIVE Dispatched(_, _, _)
Dispatched(message, subs, sent) ==
    IF subs = <<>> THEN <<>>
    ELSE LET id == Head(subs)
             answer == Answer(message, sent + 1)
             inner == deliverLocally(answer)
         IN << Invocation(id, message) >>
            \o (IF Relays(id, message)
                THEN [i \in DOMAIN inner |-> Invocation(inner[i], answer)]
                ELSE <<>>)
            \o (IF LoopContinues(HandlerOutcome(handlers[id]))
                THEN Dispatched(message, Tail(subs),
                                IF Relays(id, message) THEN sent + 1 ELSE sent)
                ELSE <<>>)

\* Whether a handler's exception leaves the loop of deliverLocally over subs,
\* and with it route() and send().
Escapes(subs) ==
    \E i \in DOMAIN subs : ~LoopContinues(HandlerOutcome(handlers[subs[i]]))

\* seenMessages after the n envelopes following the last one are tracked.
RECURSIVE TrackedThrough(_, _)
TrackedThrough(seen, n) ==
    IF n = 0 THEN seen
    ELSE trackSeenIn(TrackedThrough(seen, n - 1), DispatchIds[Len(seen) + n])

\* send(Sender, to, payload) with the handlers run to completion.
dispatchSend(to, payloadType) ==
    /\ Len(seenMessages) < Len(DispatchIds)
    /\ LET message == Message(DispatchIds[Len(seenMessages) + 1], now, to,
                              IF IsSet(to) THEN "request" ELSE "broadcast",
                              None, Some(0), payloadType)
           routed == RouteResult("send", message)
           IsRelay(id) == Relays(id, message)
           answers == Len(SelectSeq(routed.call.delivered, IsRelay))
       IN /\ Len(seenMessages) + 1 + answers <= Len(DispatchIds)
          /\ seenMessages' = TrackedThrough(seenMessages, 1 + answers)
          /\ rtLast' = IF Escapes(routed.call.delivered)
                        THEN [routed.call EXCEPT !.outcome = "threw",
                                                 !.forwarded = {}]
                        ELSE routed.call
          /\ dispatchLog' = Dispatched(message, routed.call.delivered, 0)
    /\ UNCHANGED <<subscriptions, usedSubIds, peerGateways, handlers, varsRoles,
                   varsTracker, varsSecurity, varsOrchestrator, varsTimers, now>>

NextDispatch ==
    \/ \E opts \in SubscriptionFilters, kind \in HandlerKinds :
          subscribeHandler(opts, kind)
    \/ \E to \in LocalRecipients, pt \in PayloadTypes : dispatchSend(to, pt)
    \/ \E st \in PeerStatuses : registerPeer(DispatchPeer, st)

(***************************************************************************)
(* Local dispatch with handlers that subscribe and unsubscribe             *)
(*                                                                         *)
(* deliverLocally iterates this.subscriptions itself with for...of: the    *)
(* array iterator keeps an index, reads the array's current length before  *)
(* every step and yields the element now at the index.  A handler that     *)
(* calls an unsubscribe function splices the array during the loop, and    *)
(* one that calls subscribe() pushes onto it.                              *)
(***************************************************************************)

\* An observer only receives; a leaver calls its own unsubscribe function; a
\* joiner subscribes a new observer for all messages.
LiveKinds == {"observer", "leaver", "joiner"}
LiveFilters == {Filter(None, None, None), Filter(Some("task.result"), None, None)}
LiveSubIds == <<"h1", "h2", "h3">>

\* The array after the function subscribe() returned for id was called:
\* indexOf, then splice when the subscription is still in the array.
Spliced(subs, id) ==
    LET Other(sub) == sub.id # id
    IN SelectSeq(subs, Other)

subscribeLive(opts, kind) ==
    /\ Cardinality(usedSubIds) < Len(LiveSubIds)
    /\ LET id == LiveSubIds[Cardinality(usedSubIds) + 1]
       IN /\ subscriptions' = Append(subscriptions, [id |-> id, opts |-> opts])
          /\ usedSubIds' = usedSubIds \cup {id}
          /\ handlers' = MapSet(handlers, id, kind)
    /\ rtLast' = NoRoute
    /\ dispatchLog' = <<>>
    /\ UNCHANGED <<peerGateways, seenMessages, varsRoles, varsTracker, varsSecurity,
                   varsOrchestrator, varsTimers, now>>

\* The unsubscribe function of subscription id, called between messages; a
\* call for a subscription no longer in the array changes nothing.
unsubscribeLive(id) ==
    /\ id \in usedSubIds
    /\ subscriptions' = Spliced(subscriptions, id)
    /\ rtLast' = RtCall("unsubscribe", id, 0, "none", <<>>, {})
    /\ dispatchLog' = <<>>
    /\ UNCHANGED <<usedSubIds, peerGateways, seenMessages, handlers, varsRoles,
                   varsTracker, varsSecurity, varsOrchestrator, varsTimers, now>>

\* The loop of deliverLocally from index i on: subs is the array, kinds the
\* handlers, used the subscriptions created so far, log the invocations.
RECURSIVE LiveLoop(_, _, _, _, _, _)
LiveLoop(message, subs, kinds, used, log, i) ==
    IF i > Len(subs)
    THEN [subs |-> subs, kinds |-> kinds, used |-> used, log |-> log]
    ELSE LET sub == subs[i]
             invoked == Append(log, Invocation(sub.id, message))
             fresh == LiveSubIds[Cardinality(used) + 1]
         IN IF ~Matches(sub, message)
            THEN LiveLoop(message, subs, kinds, used, log, i + 1)
            ELSE IF kinds[sub.id] = "leaver"
            THEN LiveLoop(message, Spliced(subs, sub.id), kinds, used, invoked, i + 1)
            ELSE IF kinds[sub.id] = "joiner" /\ Cardinality(used) < Len(LiveSubIds)
            THEN LiveLoop(message,
                          Append(subs, [id |-> fresh, opts |-> Filter(None, None, None)]),
                          MapSet(kinds, fresh, "observer"),
                          used \cup {fresh}, invoked, i + 1)
            ELSE LiveLoop(message, subs, kinds, used, invoked, i + 1)

\* send(Sender, undefined, payload) with the handlers run to completion.
liveSend(payloadType) ==
    /\ Len(seenMessages) < Len(DispatchIds)
    /\ LET message == Message(DispatchIds[Len(seenMessages) + 1], now, None,
                              "broadcast", None, Some(0), payloadType)
           routed == RouteResult("send", message)
           loop == LiveLoop(message, subscriptions, handlers, usedSubIds, <<>>, 1)
       IN /\ seenMessages' = routed.seen
          /\ rtLast' = [routed.call EXCEPT
                          !.delivered = [i \in DOMAIN loop.log |-> loop.log[i].sub]]
          /\ subscriptions' = loop.subs
          /\ handlers' = loop.kinds
          /\ usedSubIds' = loop.used
          /\ dispatchLog' = loop.log
    /\ UNCHANGED <<peerGateways, varsRoles, varsTracker, varsSecurity,
                   varsOrchestrator, varsTimers, now>>

NextLive ==
    \/ \E opts \in LiveFilters, kind \in LiveKinds : subscribeLive(opts, kind)
    \/ \E i \in DOMAIN LiveSubIds : unsubscribeLive(LiveSubIds[i])
    \/ \E pt \in PayloadTypes : liveSend(pt)

(***************************************************************************)
(* Specifications                                                          *)
(***************************************************************************)

vars == <<varsRoles, varsTracker, varsRouter, varsSecurity, varsOrchestrator,
          varsDispatch, varsTimers, now>>

\* Each component as its constructor leaves it.
Init ==
    /\ InitRoles
    /\ InitTracker
    /\ InitRouter
    /\ InitSecurity
    /\ InitRegistry
    /\ InitDispatch
    /\ InitClock

SpecRoles == Init /\ [][NextRoles]_vars

SpecPersist == Init /\ [][NextPersist]_vars

SpecExport == Init /\ [][NextExport]_vars

SpecTracker == Init /\ [][NextTracker]_vars

SpecSteps == Init /\ [][NextSteps]_vars

SpecReassign == Init /\ [][NextReassign]_vars

SpecList == Init /\ [][NextList]_vars

SpecConcurrent == Init /\ [][NextConcurrent]_vars

SpecRouter == Init /\ [][NextRouter]_vars

SpecForward == Init /\ [][NextForward]_vars

SpecSeen == Init /\ [][NextSeen]_vars

SpecSecurity == Init /\ [][NextSecurity]_vars

SpecAuthorize == Init /\ [][NextAuthorize]_vars

SpecUnaddressed == Init /\ [][NextUnaddressed]_vars

SpecAudit == Init /\ [][NextAudit]_vars

SpecSignature == Init /\ [][NextSignature]_vars

SpecGate == Init /\ [][NextGate]_vars

SpecOrchestrator == InitOrchestrator /\ [][NextOrchestrator]_vars

SpecPending == InitOrchestrator /\ [][NextPending]_vars

SpecLifecycle == InitOrchestrator /\ [][NextLifecycle]_vars

SpecDispatch == Init /\ [][NextDispatch]_vars

SpecLive == Init /\ [][NextLive]_vars

(***************************************************************************)
(* Claims about the RoleManager                                            *)
(***************************************************************************)

\* C1: for every defined role r whose maxConcurrent is set to k, the number of
\* assignments whose role.roleId equals r.roleId is at most k.
C1_QuotaNeverExceeded ==
    \A r \in DOMAIN roles :
        IsSet(roles[r].maxConcurrent) =>
            Cardinality({a \in DOMAIN assignments : assignments[a].role.roleId = r})
                <= Get(roles[r].maxConcurrent)

Holders(asg, r) == {a \in DOMAIN asg : asg[a].role.roleId = r}

\* C2: assignRole(agent, roleId) returns null and leaves the assignments
\* unchanged exactly when the role is not defined, or the role has a
\* maxConcurrent k, at least k agents hold the role and the agent is not one of
\* them; otherwise it returns an assignment, the agent then holds exactly that
\* role, no other agent's assignment changes, and the agent is no longer
\* counted under any other role.
C2_AssignRoleContract ==
    [][ rmLast'.op = "assignRole" =>
          LET a == rmLast'.agent
              r == rmLast'.roleId
              refused ==
                  \/ r \notin DOMAIN roles
                  \/ /\ IsSet(roles[r].maxConcurrent)
                     /\ Cardinality(Holders(assignments, r)) >= Get(roles[r].maxConcurrent)
                     /\ a \notin Holders(assignments, r)
          IN  /\ (rmLast'.ret = "null") <=> refused
              /\ refused => assignments' = assignments
              /\ ~refused =>
                    /\ a \in DOMAIN assignments'
                    /\ assignments'[a].role = roles[r]
                    /\ DOMAIN assignments' = DOMAIN assignments \cup {a}
                    /\ \A b \in DOMAIN assignments \ {a} : assignments'[b] = assignments[b]
                    /\ \A q \in (DOMAIN roles \cup {rmLast'.prior}) \ {r} :
                          a \notin Holders(assignments', q)
      ]_varsRoles

\* C2 witness: an agent was re-assigned to the role it already held and the
\* call succeeded although the role was full.
C2_ReassignOnFullRole ==
    /\ rmLast.op = "assignRole"
    /\ rmLast.ret = "assignment"
    /\ rmLast.prior = rmLast.roleId
    /\ rmLast.roleId \in DOMAIN roles
    /\ IsSet(roles[rmLast.roleId].maxConcurrent)
    /\ Cardinality(Holders(assignments, rmLast.roleId))
          >= Get(roles[rmLast.roleId].maxConcurrent)

(***************************************************************************)
(* Claims about the WorkTracker                                            *)
(***************************************************************************)

\* Tasks tracked before and after a step.
Surviving == DOMAIN tasks \cap DOMAIN tasks'

\* The edges of the task state diagram.
DiagramEdges ==
    { <<"pending", "assigned">>, <<"assigned", "in-progress">>,
      <<"in-progress", "completed">>, <<"in-progress", "failed">>,
      <<"in-progress", "timeout">>,
      <<"failed", "pending">>, <<"timeout", "pending">>,
      <<"pending", "cancelled">>, <<"assigned", "cancelled">>,
      <<"in-progress", "cancelled">> }

\* C3: every change of a task's status is an edge of the task state diagram.
C3_StatusFollowsDiagram ==
    [][ \A t \in Surviving :
            tasks'[t].status # tasks[t].status =>
                <<tasks[t].status, tasks'[t].status>> \in DiagramEdges
      ]_varsTracker

\* C4: once a task's status is completed or cancelled it never changes again.
C4_TerminalStatusIsFinal ==
    [][ \A t \in Surviving :
            tasks[t].status \in {"completed", "cancelled"} =>
                tasks'[t].status = tasks[t].status
      ]_varsTracker

\* C5: a progress or result update (updateProgress, completeTask, or a
\* task.progress / task.result message) for a cancelled task leaves its status,
\* progressPercent, statusLine, result and completedAt as they were.
C5_CancelledIgnoresUpdates ==
    [][ \A t \in Surviving :
            ( /\ tasks[t].status = "cancelled"
              /\ wtLast'.op \in {"updateProgress", "completeTask",
                                 "task.progress", "task.result"} ) =>
                /\ tasks'[t].status = tasks[t].status
                /\ tasks'[t].progressPercent = tasks[t].progressPercent
                /\ tasks'[t].statusLine = tasks[t].statusLine
                /\ tasks'[t].result = tasks[t].result
                /\ tasks'[t].completedAt = tasks[t].completedAt
      ]_varsTracker

\* C6: for every tracked task 0 <= retryCount <= maxRetries; maxRetries never
\* changes and retryCount changes only by +1, in a retryTask call on that task
\* that returns true.
C6_RetryCountBounded ==
    /\ [](\A t \in DOMAIN tasks :
              0 <= tasks[t].retryCount /\ tasks[t].retryCount <= tasks[t].maxRetries)
    /\ [][ \A t \in Surviving :
              /\ tasks'[t].maxRetries = tasks[t].maxRetries
              /\ tasks'[t].retryCount # tasks[t].retryCount =>
                    /\ tasks'[t].retryCount = tasks[t].retryCount + 1
                    /\ wtLast' = WtCall("retryTask", t, "true")
         ]_varsTracker

\* C6 witness: a task that has used up all of its (more than zero) retries, and
\* a further retryTask has just been refused.
C6_RetriesExhausted ==
    /\ wtLast.op = "retryTask" /\ wtLast.ret = "false"
    /\ wtLast.taskId \in DOMAIN tasks
    /\ tasks[wtLast.taskId].status \in {"failed", "timeout"}
    /\ tasks[wtLast.taskId].maxRetries > 0
    /\ tasks[wtLast.taskId].retryCount = tasks[wtLast.taskId].maxRetries

(***************************************************************************)
(* Claims about the MessageRouter                                          *)
(***************************************************************************)

HasOpenSubscription ==
    \E i \in DOMAIN subscriptions : subscriptions[i].opts = Filter(None, None, None)

HasConnectedPeer ==
    \E g \in DOMAIN peerGateways : peerGateways[g].status = "connected"

\* C7: a message routed again (by route after send, or by repeated route calls)
\* while its messageId is still in the seen set invokes no local handler and is
\* sent to no peer, and a single route call invokes each subscription at most
\* once and sends to each peer at most once; so for as long as the id stays in
\* the seen set every matching subscriber is invoked at most once and the
\* message is forwarded at most once.
C7_DuplicateRoutedOnce ==
    /\ [][ (rtLast'.op # "none" /\ rtLast'.messageId \in SeenSet)
              => (rtLast'.delivered = <<>> /\ rtLast'.forwarded = {}) ]_varsRouter
    /\ [](/\ \A i, j \in DOMAIN rtLast.delivered :
                rtLast.delivered[i] = rtLast.delivered[j] => i = j
          /\ \A f, g \in rtLast.forwarded : f.gatewayId = g.gatewayId => f = g)

\* A second route of a fresh broadcast, with a subscriber and a connected peer
\* waiting for it, is dropped as a duplicate.
C7_SecondRouteDropped ==
    /\ rtLast.op = "route"
    /\ rtLast.outcome = "duplicate"
    /\ rtLast.hopIn = 0
    /\ HasOpenSubscription
    /\ HasConnectedPeer
    /\ rtLast.delivered = <<>>
    /\ rtLast.forwarded = {}

\* C8: a route call entered with hopCount >= 16 invokes no handler and calls
\* sendToPeer for no peer; every copy handed to sendToPeer carries the entry
\* hop count (an absent hopCount counting as 0) plus one, and never more than 16.
C8_HopLimit ==
    rtLast.op # "none" =>
        /\ rtLast.hopIn >= MAX_HOP_COUNT =>
              (rtLast.delivered = <<>> /\ rtLast.forwarded = {})
        /\ \A f \in rtLast.forwarded :
              /\ f.hopCount = rtLast.hopIn + 1
              /\ f.hopCount <= MAX_HOP_COUNT

\* A message entering at the limit is dropped although a subscriber and a
\* connected peer are there to take it.
C8_DroppedAtLimit ==
    /\ rtLast.op = "route"
    /\ rtLast.outcome = "hop-limit"
    /\ rtLast.hopIn = MAX_HOP_COUNT
    /\ HasOpenSubscription
    /\ HasConnectedPeer

(***************************************************************************)
(* Claims about the security gate and the rate limiter                     *)
(***************************************************************************)

\* C9: the router invokes a local handler for a message, or hands it to a
\* peer, only if authorizeMessage has been evaluated for that message and
\* returned allowed = true.
C9_RoutedOnlyIfAuthorized ==
    (rtLast.delivered # <<>> \/ rtLast.forwarded # {})
        => rtLast.messageId \in authorizedIds

\* C10: for every agent and every interval of 60 s, wherever it starts, the
\* checkRateLimit calls of that agent that return true inside the interval
\* number at most the maxMessagesPerMinute of the agent's policy.
C10_RateWithinAnyMinute ==
    \A a \in DOMAIN grants :
        \A i \in DOMAIN grants[a] :
            Cardinality({ j \in DOMAIN grants[a] :
                            /\ j >= i
                            /\ grants[a][j] - grants[a][i] < windowMs })
                <= getPolicy(a).maxMessagesPerMinute

\* C11: with maxMessagesPerMinute = k, the n-th checkRateLimit call of an agent
\* in a window (n = 1 for a call that opens a fresh window) returns true and
\* appends nothing to the audit log when n <= k, and returns false and appends
\* exactly one entry, action rate-limit.exceeded and allowed = false, when n > k.
C11_RateLimitContract ==
    [][ secLast'.op = "checkRateLimit" =>
          LET a == secLast'.agentId
              k == getPolicy(a).maxMessagesPerMinute
              fresh == \/ a \notin DOMAIN rateLimiter
                       \/ now - rateLimiter[a].windowStart > windowMs
              n == IF fresh THEN 1 ELSE rateLimiter[a].count + 1
          IN IF n <= k
             THEN secLast'.ret = "true" /\ auditLog' = auditLog
             ELSE /\ secLast'.ret = "false"
                  /\ Len(auditLog') = Len(auditLog) + 1
                  /\ SubSeq(auditLog', 1, Len(auditLog)) = auditLog
                  /\ auditLog'[Len(auditLog')].action = "rate-limit.exceeded"
                  /\ auditLog'[Len(auditLog')].allowed = FALSE
                  /\ auditLog'[Len(auditLog')].agentId = a ]_varsSecurity

\* The call after the k-th of a window has been denied and logged, k being
\* more than one.
C11_DeniedAfterLimit ==
    /\ secLast.op = "checkRateLimit"
    /\ secLast.ret = "false"
    /\ getPolicy(secLast.agentId).maxMessagesPerMinute > 1
    /\ rateLimiter[secLast.agentId].count
          = getPolicy(secLast.agentId).maxMessagesPerMinute + 1
    /\ Len(auditLog) = 1
    /\ auditLog[1].action = "rate-limit.exceeded"

(***************************************************************************)
(* Claims about the WorkTracker's indices, cleanup, retry and rejections   *)
(***************************************************************************)

InAgentIndex(a, t) == a \in DOMAIN agentTaskIndex /\ t \in agentTaskIndex[a]
InWorkflowIndex(p, t) == p \in DOMAIN workflowTaskIndex /\ t \in workflowTaskIndex[p]

\* C12: task t is in the agent index set of agent a if and only if t is
\* tracked and assigned to a.
C12_AgentIndexConsistent ==
    \A a \in ReassignAgents, t \in TaskIds :
        InAgentIndex(a, t) <=> (t \in DOMAIN tasks /\ tasks[t].assignedTo = Some(a))

\* C13: every entry s -> t of stepIndex names a tracked task whose
\* workflowStepId is s, and every tracked task with a workflowStepId s is the
\* one stepIndex holds for s.
C13_StepIndexOneToOne ==
    /\ \A s \in DOMAIN stepIndex :
          /\ stepIndex[s] \in DOMAIN tasks
          /\ tasks[stepIndex[s]].workflowStepId = Some(s)
    /\ \A t \in DOMAIN tasks :
          IsSet(tasks[t].workflowStepId) =>
             /\ Get(tasks[t].workflowStepId) \in DOMAIN stepIndex
             /\ stepIndex[Get(tasks[t].workflowStepId)] = t

\* C14: a cleanup call removes only tasks that are completed or cancelled;
\* tasks in pending, assigned, in-progress, failed or timeout are retained.
C14_CleanupRemovesOnlyTerminal ==
    [][ \A m \in MaxAgeInputs :
          (wtLast'.op = "cleanup" /\ cleanup(m)) =>
            \A t \in DOMAIN tasks \ DOMAIN tasks' :
                tasks[t].status \in {"completed", "cancelled"} ]_varsTracker

\* C15: retryTask(t) returns true exactly when t is tracked, failed or timed
\* out, and retryCount < maxRetries; then retryCount grows by one, the status
\* is pending, the transient fields are cleared and the other fields keep
\* their values.
C15_RetryContract ==
    [][ \A t \in TaskIds :
          (wtLast'.op = "retryTask" /\ retryTask(t)) =>
            LET ok == /\ t \in DOMAIN tasks
                      /\ tasks[t].status \in {"failed", "timeout"}
                      /\ tasks[t].retryCount < tasks[t].maxRetries
            IN /\ wtLast'.ret = (IF ok THEN "true" ELSE "false")
               /\ ok =>
                    /\ tasks'[t].retryCount = tasks[t].retryCount + 1
                    /\ tasks'[t].status = "pending"
                    /\ \A f \in {"assignedTo", "assignedAt", "startedAt", "completedAt",
                                  "progressPercent", "statusLine", "result"} :
                          tasks'[t][f] = None
                    /\ \A f \in {"taskId", "task", "priority", "deadline", "createdAt",
                                  "workflowStepId", "workflowPlanId", "tags",
                                  "maxRetries"} :
                          tasks'[t][f] = tasks[t][f] ]_varsTracker

\* A timed-out task with progress and a result on it has been retried.
C15_TimedOutTaskRetried ==
    /\ wtLast.op = "retryTask"
    /\ wtLast.ret = "true"
    /\ \E t \in DOMAIN tasks :
          /\ tasks[t].retryCount = 1
          /\ tasks[t].status = "pending"
          /\ tasks[t].result = None
          /\ tasks[t].tags = {"urgent"}

PreconditionMet(op, t) ==
    /\ t \in DOMAIN tasks
    /\ CASE op = "assignTask" -> tasks[t].status \in {"pending", "failed"}
         [] op = "startTask" -> tasks[t].status = "assigned"
         [] op = "cancelTask" -> tasks[t].status \notin {"completed", "cancelled"}
         [] op = "retryTask" -> /\ tasks[t].status \in {"failed", "timeout"}
                                /\ tasks[t].retryCount < tasks[t].maxRetries

\* C16: assignTask, startTask, cancelTask and retryTask called with an unknown
\* taskId, or on a task that does not meet the operation's precondition,
\* return false and leave the task map and the three indices unchanged.
C16_RejectedCallChangesNothing ==
    [][ \A t \in TaskIds :
          /\ \A a \in TrackerAgents :
                (/\ wtLast'.op = "assignTask"
                 /\ ~PreconditionMet("assignTask", t)
                 /\ assignTask(t, a)) =>
                   /\ wtLast'.ret = "false"
                   /\ UNCHANGED <<tasks, agentTaskIndex, workflowTaskIndex, stepIndex>>
          /\ (/\ wtLast'.op = "startTask"
              /\ ~PreconditionMet("startTask", t)
              /\ startTask(t)) =>
                /\ wtLast'.ret = "false"
                /\ UNCHANGED <<tasks, agentTaskIndex, workflowTaskIndex, stepIndex>>
          /\ (/\ wtLast'.op = "cancelTask"
              /\ ~PreconditionMet("cancelTask", t)
              /\ cancelTask(t)) =>
                /\ wtLast'.ret = "false"
                /\ UNCHANGED <<tasks, agentTaskIndex, workflowTaskIndex, stepIndex>>
          /\ (/\ wtLast'.op = "retryTask"
              /\ ~PreconditionMet("retryTask", t)
              /\ retryTask(t)) =>
                /\ wtLast'.ret = "false"
                /\ UNCHANGED <<tasks, agentTaskIndex, workflowTaskIndex, stepIndex>>
      ]_varsTracker

\* assignTask has been refused on a completed task.
C16_AssignRefused ==
    /\ wtLast.op = "assignTask"
    /\ wtLast.ret = "false"
    /\ wtLast.taskId \in DOMAIN tasks
    /\ tasks[wtLast.taskId].status = "completed"

\* C17: a delivered task.result message whose workflowStepId is indexed to a
\* tracked task t sets t's status to completed for success and partial, to
\* timeout for timeout and to failed otherwise, sets progressPercent to 100 and
\* completedAt, and emits exactly one task.completed event for t; a task.result
\* without workflowStepId, or with one that is not indexed, changes no task
\* and emits no event.
C17_TaskResultHandled ==
    [][ \A s \in StepInputs, r \in ResultStatuses :
          (wtLast'.op = "task.result" /\ onTaskResult(s, r)) =>
            IF IsSet(s) /\ Get(s) \in DOMAIN stepIndex
                        /\ stepIndex[Get(s)] \in DOMAIN tasks
            THEN LET t == stepIndex[Get(s)]
                 IN /\ tasks'[t].status =
                          (CASE r \in {"success", "partial"} -> "completed"
                             [] r = "timeout" -> "timeout"
                             [] OTHER -> "failed")
                    /\ tasks'[t].progressPercent = Some(FullPercent)
                    /\ tasks'[t].completedAt = Some(now)
                    /\ events' = << [type |-> "task.completed", taskId |-> t,
                                     status |-> r] >>
                    /\ \A u \in DOMAIN tasks \ {t} : tasks'[u] = tasks[u]
            ELSE tasks' = tasks /\ events' = <<>> ]_varsTracker

\* A task.result with status partial has completed an in-progress task.
C17_PartialResultCompletes ==
    /\ wtLast.op = "task.result"
    /\ wtLast.ret = "handled"
    /\ Len(events) = 1
    /\ events[1].status = "partial"
    /\ tasks[wtLast.taskId].status = "completed"
    /\ IsSet(tasks[wtLast.taskId].startedAt)

(***************************************************************************)
(* Claims about the orchestrator's task submission                         *)
(***************************************************************************)

LoadOf(a) == IF a \in DOMAIN agentHeartbeats THEN agentHeartbeats[a].load ELSE 0
PriorityOf(a) ==
    IF a \in DOMAIN assignments THEN assignments[a].role.priority ELSE 50

\* C19: without targetAgentInstanceId, submitTask selects a registered agent
\* (holding targetRoleId if one is given) of minimal load among the candidates
\* and of maximal role priority among the candidates of that load, or none
\* when there is no candidate; with targetAgentInstanceId it selects that
\* agent if it is registered and none otherwise.
C19_SelectionRule ==
    [][ \A o \in TrackerOpts, s \in StepInputs, tr \in TargetRoleInputs,
           ta \in TargetAgentInputs, rb \in RequesterInputs :
          (orLast'.op = "submitTask" /\ submitTask(o, s, tr, ta, rb)) =>
            LET selected == orLast'.selected
                candidates == {a \in Registered :
                                 IsSet(tr) => /\ a \in DOMAIN assignments
                                              /\ assignments[a].role.roleId = Get(tr)}
            IN IF IsSet(ta)
               THEN selected = (IF Get(ta) \in Registered THEN ta ELSE None)
               ELSE IF candidates = {}
               THEN selected = None
               ELSE /\ IsSet(selected)
                    /\ Get(selected) \in candidates
                    /\ \A c \in candidates :
                          /\ LoadOf(Get(selected)) <= LoadOf(c)
                          /\ LoadOf(c) = LoadOf(Get(selected)) =>
                                PriorityOf(c) <= PriorityOf(Get(selected)) ]_vars

\* The agent of lower load has been selected over one of higher priority.
C19_LowerLoadBeatsPriority ==
    /\ orLast.op = "submitTask"
    /\ orLast.selected = Some("A2")
    /\ Registered = {"A1", "A2"}
    /\ LoadOf("A2") < LoadOf("A1")
    /\ PriorityOf("A2") < PriorityOf("A1")

(***************************************************************************)
(* Claims about the order of local dispatch                                *)
(***************************************************************************)

\* C20: of two messages sent from the same sender to the same recipient,
\* every handler that is invoked with both is invoked with the one sent first
\* before the one sent second, also when the second is sent from inside a
\* handler that is processing the first.
C20_SendOrderPreserved ==
    \A i, j \in DOMAIN dispatchLog :
        (/\ dispatchLog[i].sub = dispatchLog[j].sub
         /\ IdIndex(dispatchLog[i].messageId) < IdIndex(dispatchLog[j].messageId))
            => i < j

(***************************************************************************)
(* Claims about handlers that fail                                          *)
(***************************************************************************)

\* The message send(Sender, to, payload) builds in the dispatch runs.
DispatchMessage(to, payloadType) ==
    Message(DispatchIds[Len(seenMessages) + 1], now, to,
            IF IsSet(to) THEN "request" ELSE "broadcast",
            None, Some(0), payloadType)

\* How often subscription id was invoked with messageId in the last call.
InvocationCount(log, id, messageId) ==
    Cardinality({i \in DOMAIN log :
                   log[i] = [sub |-> id, messageId |-> messageId]})

\* C21: a handler that throws synchronously or returns a rejected promise
\* does not stop the delivery: every matching subscription is still invoked
\* exactly once with the message, the message is still forwarded to the
\* connected peers, and send() returns normally.
C21_FailingHandlerIsolated ==
    [][ \A to \in LocalRecipients, pt \in PayloadTypes :
          (rtLast'.op = "send" /\ dispatchSend(to, pt)) =>
             LET message == DispatchMessage(to, pt)
             IN /\ rtLast'.outcome = "routed"
                /\ \A i \in DOMAIN subscriptions :
                      InvocationCount(dispatchLog', subscriptions[i].id,
                                      message.messageId)
                        = IF Matches(subscriptions[i], message) THEN 1 ELSE 0
                /\ rtLast'.forwarded =
                      IF message.direction = "broadcast"
                      THEN { [gatewayId |-> g, hopCount |-> 1] :
                               g \in { p \in DOMAIN peerGateways :
                                         peerGateways[p].status = "connected" } }
                      ELSE {} ]_vars

\* A thrower was invoked first, the subscription after it was invoked too,
\* and the message went out to the connected peer.
C21_DeliveredPastThrower ==
    /\ rtLast.op = "send"
    /\ Len(rtLast.delivered) = 2
    /\ handlers[rtLast.delivered[1]] = "thrower"
    /\ handlers[rtLast.delivered[2]] = "rejecter"
    /\ InvocationCount(dispatchLog, rtLast.delivered[2], rtLast.messageId) = 1
    /\ rtLast.forwarded # {}

(***************************************************************************)
(* Claims about authorizeMessage                                            *)
(***************************************************************************)

\* The four checks, each taken on its own.
RateCheckFails(message) ==
    Counted(message.from.agentConfigId).count
        > getPolicy(message.from.agentConfigId).maxMessagesPerMinute

CrossGatewayCheckFails(message) ==
    /\ ~getPolicy(message.from.agentConfigId).allowCrossGateway
    /\ \/ ~IsSet(message.to)
       \/ Get(message.to).gatewayId # message.from.gatewayId

SignatureCheckFails(message) ==
    /\ IsSet(message.signature)
    /\ ~verifySignature(message)

\* The permission each payload type asks for.
RequiredPermissions ==
    [pt \in PermissionPayloadTypes |->
        IF pt = "task.assign" THEN {"task.assign"}
        ELSE IF pt = "role.assign" THEN {"role.assign"}
        ELSE IF pt = "agent.discovery" THEN {"agent.register"}
        ELSE {}]

PermissionCheckFails(message) ==
    \E required \in RequiredPermissions[message.payloadType] :
        required \notin getPolicy(message.from.agentConfigId).permissions

C23_DenialsAudited ==
    [][ \A message \in AuthMessages :
          (/\ secLast'.op = "authorizeMessage"
           /\ authorizeMessage(message)
           /\ secLast'.ret = "false") =>
             \E i \in DOMAIN auditLog' :
                /\ i > Len(auditLog)
                /\ auditLog'[i].agentId = message.from.agentConfigId
                /\ ~auditLog'[i].allowed ]_vars

(***************************************************************************)
(* Claims about the audit log                                               *)
(***************************************************************************)

\* C24: the audit log is bounded: whenever no trim is pending, the scheduled
\* trim having run, it holds at most maxAuditEntries entries, however many
\* audit-producing calls were made between two runs of the microtask queue.
\* (At most one trim is scheduled at a time: auditTrimPending is a flag.)
C24_AuditLogBounded ==
    ~auditTrimPending => Len(auditLog) <= maxAuditEntries

(***************************************************************************)
(* Claims about message signatures                                          *)
(***************************************************************************)

\* C25: a message whose signature is signMessage of its own messageId and
\* payload verifies; the same signature on a message with another payload or
\* another messageId does not; a message without a signature does not.
C25_SignatureRoundTrip ==
    (secLast.op = "verifySignature") =>
        LET message == Get(secLast.message)
        IN (secLast.ret = "true") <=>
              /\ IsSet(message.signature)
              /\ secLast.signedFor
                    = Some(<<message.messageId, message.payloadType>>)

\* A signed message was verified after its payload had been replaced, and
\* was refused.
C25_ReplacedPayloadRefused ==
    /\ secLast.op = "verifySignature"
    /\ secLast.ret = "false"
    /\ \E signed \in secLast.signedFor :
          /\ signed[1] = Get(secLast.message).messageId
          /\ signed[2] # Get(secLast.message).payloadType

(***************************************************************************)
(* Claims about exported state                                              *)
(***************************************************************************)

\* C26: importState(exportState()), into the same manager or into a fresh
\* one, yields role and assignment maps equal to the exporting manager's:
\* the import replaces everything, a fresh manager's built-in roles included.
C26_ExportImportRoundTrip ==
    [][ rmLast'.op \in {"restoreState", "restoreIntoFresh"} =>
           /\ roles' = roles
           /\ assignments' = assignments ]_vars

\* The state went into a fresh manager with a built-in role removed, a
\* custom role defined and an agent assigned.
C26_RestoredWithoutBuiltIn ==
    /\ rmLast.op = "restoreIntoFresh"
    /\ "coder" \notin DOMAIN roles
    /\ "custom" \in DOMAIN roles
    /\ DOMAIN assignments # {}

\* C27: the snapshots of exportState() and exportPolicies() are deep copies:
\* a write to an exported role, assignment or policy object does not change
\* what getRole, getAssignment, the quota check of assignRole, getPolicy and
\* hasPermission observe.
C27_ExportsAreDeepCopies ==
    [][ (\/ rmLast'.op \in {"writeExportedRole", "writeExportedAssignment"}
         \/ secLast'.op = "writeExportedPolicy") =>
           /\ roles' = roles
           /\ assignments' = assignments
           /\ \A id \in AssignableRoleIds :
                 countAgentsWithRole(id)' = countAgentsWithRole(id)
           /\ \A a \in SecAgents : getPolicy(a)' = getPolicy(a) ]_vars

(***************************************************************************)
(* Claims about start() and stop()                                          *)
(***************************************************************************)

\* C28: once stop() or shutdown() has returned, after any sequence of start()
\* and stop() calls, no cleanup interval of an earlier start() is still
\* scheduled, and the call has routed exactly one agent.discovery broadcast
\* with action leave for each locally registered agent.
C28_StopLeavesNothingScheduled ==
    (orLast.op = "stop") =>
        /\ \A handle \in DOMAIN timers : timers[handle] = "cleared"
        /\ \A a \in Registered :
              Cardinality({i \in DOMAIN orLast.sent :
                             /\ orLast.sent[i].agent = a
                             /\ orLast.sent[i].type = "agent.discovery"
                             /\ orLast.sent[i].action = "leave"
                             /\ orLast.sent[i].direction = "broadcast"}) = 1
        /\ Len(orLast.sent) = Cardinality(Registered)

(***************************************************************************)
(* Claims about local delivery and forwarding                               *)
(***************************************************************************)

\* The subscriptions a message matches, in subscription order.
MatchingSubscriptions(message) ==
    LET Match(sub) == Matches(sub, message)
        matching == SelectSeq(subscriptions, Match)
    IN [i \in DOMAIN matching |-> matching[i].id]

\* The connected peers.
ConnectedPeers ==
    {p \in DOMAIN peerGateways : peerGateways[p].status = "connected"}

\* C29: for a message that passes the dedup, TTL and hop checks, route()
\* invokes the local subscribers iff the message has no recipient, or its
\* recipient's gateway is the local one, or its direction is broadcast; it
\* forwards to peers iff the recipient is on another gateway, or the
\* direction is broadcast.
C29_LocalAndRemoteTargets ==
    [][ \A message \in ForwardMessages :
          (/\ rtLast'.op = "route"
           /\ rtLast'.outcome = "routed"
           /\ rtLast'.messageId = message.messageId
           /\ route(message)) =>
             LET local == \/ ~IsSet(message.to)
                          \/ Get(message.to).gatewayId = localGatewayId
                          \/ message.direction = "broadcast"
                 remote == \/ /\ IsSet(message.to)
                              /\ Get(message.to).gatewayId # localGatewayId
                           \/ message.direction = "broadcast"
             IN /\ rtLast'.delivered =
                      IF local THEN MatchingSubscriptions(message) ELSE <<>>
                /\ ~remote => rtLast'.forwarded = {}
                /\ (/\ remote
                    /\ \E p \in ConnectedPeers :
                          IsSet(message.to) => Get(message.to).gatewayId = p)
                      => rtLast'.forwarded # {} ]_vars

\* A routed message went to a peer and to no local subscriber although a
\* subscription without a filter was there.
C29_RemoteOnly ==
    /\ rtLast.op = "route"
    /\ rtLast.outcome = "routed"
    /\ rtLast.delivered = <<>>
    /\ rtLast.forwarded # {}
    /\ \E i \in DOMAIN subscriptions :
          subscriptions[i].opts = Filter(None, None, None)

\* C30: sendToPeer is called only for connected peers: for a message with a
\* recipient and direction other than broadcast only for the peer that is the
\* recipient's gateway, and for a broadcast for every connected peer, with
\* or without a recipient in the envelope; the copy sent has the hop count
\* of the routed message plus one.
C30_ForwardTargets ==
    [][ \A message \in ForwardMessages :
          (/\ rtLast'.op = "route"
           /\ rtLast'.outcome = "routed"
           /\ rtLast'.messageId = message.messageId
           /\ route(message)) =>
             LET sentTo == {call.gatewayId : call \in rtLast'.forwarded}
             IN /\ sentTo \subseteq ConnectedPeers
                /\ \A call \in rtLast'.forwarded :
                      call.hopCount = OrElse(message.hopCount, 0) + 1
                /\ IF message.direction = "broadcast"
                   THEN sentTo = ConnectedPeers
                   ELSE IsSet(message.to) =>
                           sentTo \subseteq {Get(message.to).gatewayId} ]_vars

(***************************************************************************)
(* Claims about the dedup set                                               *)
(***************************************************************************)

\* C31: after every route() call the seen set holds at most maxSeenSize ids;
\* an eviction removes the oldest ids by insertion order, so the ids kept are
\* the newest ones without a gap, and each of the eight thousand ids routed
\* last is still in the set.
C31_SeenBoundedOldestEvicted ==
    LET kept == (maxSeenSize * 8) \div 10
    IN /\ Len(seenMessages) <= maxSeenSize
       /\ \A i \in 1..(Len(seenMessages) - 1) :
             seenMessages[i + 1] = seenMessages[i] + 1
       /\ Len(seenMessages) >= (IF RoutedIds < kept THEN RoutedIds ELSE kept)
       /\ (rtLast.op = "route" /\ rtLast.messageId + kept > RoutedIds)
             => rtLast.messageId \in SeenSet

\* An eviction has happened, and the oldest of the newest eight thousand ids
\* was routed again and dropped as a duplicate.
C31_OldestKeptStillDeduplicated ==
    /\ seenMessages # <<>>
    /\ seenMessages[1] > 1
    /\ rtLast.op = "route"
    /\ rtLast.outcome = "duplicate"
    /\ rtLast.messageId = RoutedIds - ((maxSeenSize * 8) \div 10 - 1)

(***************************************************************************)
(* Claims about the discovery handler                                       *)
(***************************************************************************)

\* C32: the discovery message that registerAgent broadcasts for its own local
\* agent causes no agent.joined from the discovery handler, so registerAgent
\* produces exactly one agent.joined event.
C32_RegisterJoinsOnce ==
    orLast.op = "registerAgent"
       => Cardinality({i \in DOMAIN events : events[i].type = "agent.joined"}) = 1

(***************************************************************************)
(* Claims about listTasks                                                   *)
(***************************************************************************)

\* C33: listTasks(filter) returns exactly the tracked tasks that satisfy
\* every given filter field together (status, current assignee, workflow
\* plan, tag), also when agentInstanceId and workflowPlanId are both given,
\* ordered by priority descending.
C33_ListTasksAppliesEveryFilter ==
    \A f \in ListFilters :
       LET result == listTasks(f)
           Satisfies(id) ==
              /\ IsSet(f.status) => tasks[id].status = Get(f.status)
              /\ IsSet(f.agentInstanceId) => tasks[id].assignedTo = f.agentInstanceId
              /\ IsSet(f.workflowPlanId) => tasks[id].workflowPlanId = f.workflowPlanId
              /\ IsSet(f.tag) => Get(f.tag) \in tasks[id].tags
       IN /\ {result[i] : i \in DOMAIN result} = {id \in DOMAIN tasks : Satisfies(id)}
          /\ \A i \in 1..(Len(result) - 1) :
                tasks[result[i]].priority >= tasks[result[i + 1]].priority

(***************************************************************************)
(* Claims about the concurrent-task limit                                   *)
(***************************************************************************)

\* C34: at every moment, for every agent, the number of tracked tasks in
\* status assigned or in-progress that are assigned to the agent does not
\* exceed maxConcurrentTasks of the agent's policy (8 when it has none).
C34_ConcurrentTasksWithinPolicy ==
    \A a \in TrackerAgents :
       Cardinality(ActiveTasksOf(a))
          <= getPolicy(AgentIdentity(a).agentConfigId).maxConcurrentTasks

(***************************************************************************)
(* Claims about unregistered agents                                         *)
(***************************************************************************)

\* C35: an agent that is not registered locally (unregistered, or never
\* registered) holds no role assignment, has no heartbeat entry and is not
\* selected by submitTask; in particular the heartbeat map only ever holds
\* entries of locally registered agents.
C35_UnregisteredAgentLeavesNothing ==
    \A a \in OrchAgents :
       a \notin Registered
          => /\ a \notin DOMAIN assignments
             /\ a \notin DOMAIN agentHeartbeats
             /\ orLast.op = "submitTask" => orLast.selected # Some(a)

(***************************************************************************)
(* Claims about the fields of a tracked task                                *)
(***************************************************************************)

\* C36: in every reachable WorkTracker state a task in status assigned or
\* in-progress has assignedTo and assignedAt set, an in-progress task also
\* startedAt, and a pending task has none of assignedTo, assignedAt,
\* startedAt, completedAt and result.
C36_StatusDeterminesFields ==
    \A id \in DOMAIN tasks :
       LET task == tasks[id]
       IN /\ task.status \in {"assigned", "in-progress"}
               => IsSet(task.assignedTo) /\ IsSet(task.assignedAt)
          /\ task.status = "in-progress" => IsSet(task.startedAt)
          /\ task.status = "pending"
               => /\ ~IsSet(task.assignedTo)
                  /\ ~IsSet(task.assignedAt)
                  /\ ~IsSet(task.startedAt)
                  /\ ~IsSet(task.completedAt)
                  /\ ~IsSet(task.result)

\* A task that was assigned, started and failed is pending again after
\* retryTask.
C36_PendingAfterRetry ==
    /\ wtLast.op = "retryTask"
    /\ wtLast.ret = "true"
    /\ tasks[wtLast.taskId].status = "pending"
    /\ tasks[wtLast.taskId].retryCount > 0

(***************************************************************************)
(* Claims about messages without a recipient                                *)
(***************************************************************************)

\* C37: authorizeMessage treats a message with no recipient as cross-gateway:
\* it returns allowed = true for such a message only if the sender's policy
\* has allowCrossGateway = true, and under the default policy it always
\* denies it.
C37_UnaddressedIsCrossGateway ==
    [][ \A message \in UnaddressedMessages :
          (secLast'.op = "authorizeMessage" /\ authorizeMessage(message)) =>
             /\ secLast'.ret = "true"
                   => getPolicy(message.from.agentConfigId).allowCrossGateway
             /\ message.from.agentConfigId \notin DOMAIN policies
                   => secLast'.ret = "false" ]_vars

\* A message without a recipient was allowed for a sender whose policy
\* permits cross-gateway communication.
C37_UnaddressedAllowedByPolicy ==
    /\ secLast.op = "authorizeMessage"
    /\ secLast.ret = "true"
    /\ "b1" \in authorizedIds
    /\ getPolicy(secLast.agentId).allowCrossGateway

(***************************************************************************)
(* Claims about the role.assigned event                                     *)
(***************************************************************************)

\* C38: a role.assigned event for an agent and a role is emitted only when
\* the role manager holds an assignment of that agent to that role at that
\* moment; registerAgent emits none when RoleManager.assignRole returned null.
C38_RoleAssignedOnlyWhenHeld ==
    \A i \in DOMAIN events :
       events[i].type = "role.assigned"
          => /\ events[i].agentInstanceId \in DOMAIN assignments
             /\ assignments[events[i].agentInstanceId].role.roleId = events[i].roleId

(***************************************************************************)
(* Claims about subscribing and unsubscribing during delivery               *)
(***************************************************************************)

\* C39: every subscription that matches a message and is registered when its
\* local delivery begins is invoked exactly once for it, also when a handler
\* unsubscribes or subscribes during the loop; the handler of a subscription
\* that was unsubscribed before is not invoked; and an unsubscribe call
\* removes no subscription but its own.
C39_RegisteredInvokedOnce ==
    [][ /\ \A pt \in PayloadTypes :
             (rtLast'.op = "send" /\ liveSend(pt)) =>
                LET message == Message(rtLast'.messageId, now, None, "broadcast",
                                       None, Some(0), pt)
                    registered == {subscriptions[i].id : i \in DOMAIN subscriptions}
                    matching == {subscriptions[i].id :
                                    i \in {j \in DOMAIN subscriptions :
                                             Matches(subscriptions[j], message)}}
                IN /\ \A id \in matching :
                         InvocationCount(dispatchLog', id, message.messageId) = 1
                   /\ \A id \in usedSubIds \ registered :
                         InvocationCount(dispatchLog', id, message.messageId) = 0
        /\ \A i \in DOMAIN LiveSubIds :
             (rtLast'.op = "unsubscribe" /\ unsubscribeLive(LiveSubIds[i])) =>
                \A k \in DOMAIN subscriptions :
                   subscriptions[k].id # LiveSubIds[i]
                      => \E n \in DOMAIN subscriptions' :
                            subscriptions'[n] = subscriptions[k] ]_vars

(***************************************************************************)
(* Claims about pending tasks                                               *)
(***************************************************************************)

\* C40: the orchestrator never re-dispatches a pending task: a task that is
\* pending stays unassigned through every registerAgent, assignRole,
\* heartbeat, start and cleanup, none of which routes a task.assign, until
\* WorkTracker.assignTask is called for it.
C40_PendingNeverRedispatched ==
    [][ \A t \in TaskIds :
          (/\ t \in DOMAIN tasks
           /\ tasks[t].status = "pending"
           /\ ~(\E a \in TrackerAgents : assignTask(t, a)))
             => /\ t \in DOMAIN tasks'
                     => /\ tasks'[t].status \notin {"assigned", "in-progress"}
                        /\ ~IsSet(tasks'[t].assignedTo)
                /\ orLast' # orLast
                     => \A i \in DOMAIN orLast'.sent :
                           orLast'.sent[i].type # "task.assign" ]_vars

\* A task returned to pending by retryTask is still pending after a registered
\* agent reported a heartbeat.
C40_RetriedTaskStillPending ==
    /\ orLast.op = "heartbeat"
    /\ localAgents # <<>>
    /\ \E t \in DOMAIN tasks :
          tasks[t].status = "pending" /\ tasks[t].retryCount > 0

====
